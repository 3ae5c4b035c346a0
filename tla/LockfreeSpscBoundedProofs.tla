--------------------- MODULE LockfreeSpscBoundedProofs ---------------------
(***************************************************************************)
(* Proofs about lockfree_spsc_bounded, for every Capacity and every number *)
(* of items.                                                               *)
(*                                                                         *)
(* The n-th push uses slot tail[n] and the n-th pop slot head[n].  The     *)
(* argument is that head follows the very sequence of indexes tail does    *)
(* (IndexInv), that this sequence repeats no slot within buffer_size       *)
(* consecutive stores, and that the caches never lag or lead by more than  *)
(* Capacity (DistanceInv): so an index comparison modulo buffer_size       *)
(* decides exactly how many items are between two stores.                  *)
(***************************************************************************)
EXTENDS LockfreeSpscBounded, SequenceTheorems, TLAPS

\* The slot that is d < buffer_size slots after slot i.
SlotAfter(i, d) == IF i + d < buffer_size THEN i + d ELSE i + d - buffer_size

IndexInv ==
  /\ \A i, j \in 1 .. Len(tail) :
       i <= j /\ j - i < buffer_size => tail[j] = SlotAfter(tail[i], j - i)
  /\ Len(head) <= Len(tail)
  /\ \A i \in 1 .. Len(tail) - 1 : tail[i + 1] = NextIdx(tail[i])
  /\ \A i \in 1 .. Len(head) : head[i] = tail[i]

DistanceInv ==
  /\ head_cache = head[hcAt] /\ tail_cache = tail[tcAt]
  /\ Len(tail) - hcAt <= Capacity
  /\ Len(head) <= tcAt
  /\ pc["P"] \in {"write", "publish"} => Len(tail) - hcAt < Capacity
  /\ pc["C"] \in {"read", "release"} => Len(head) < tcAt
  /\ pc["C"] = "reload" => Len(head) = tcAt

ControlInv ==
  /\ pc["P"] \notin {"read", "release"}
  /\ pc["C"] \notin {"write", "publish"}
  /\ pc["P"] \in {"check", "reload", "write", "publish"} => Len(tail) <= MaxItems
  /\ Len(got) = IF pc["C"] = "release" THEN Len(head) ELSE Len(head) - 1

\* The date of the last access to a slot names the position it was made for.
RaceInv ==
  /\ \A s \in Slots : \/ wrote[s] = 1
                      \/ /\ wrote[s] - 1 \in 1 .. Len(tail)
                         /\ tail[wrote[s] - 1] = s
  /\ \A s \in Slots : \/ readBy[s] = 1
                      \/ /\ readBy[s] - 1 \in 1 .. Len(head)
                         /\ tail[readBy[s] - 1] = s
                         /\ readBy[s] - 1 < tcAt

DataInv ==
  /\ \A n \in 1 .. Len(got) : got[n] = n
  /\ \A n \in Len(got) + 1 .. Len(tail) - 1 : arr[tail[n]] = n
  /\ pc["P"] \in {"check", "reload", "write"} => value = Len(tail)
  /\ pc["P"] = "publish" => arr[tail[Len(tail)]] = Len(tail)

PeekInv == peeked # NoItem => peeked = Len(head) /\ Len(head) < tcAt

IInv == /\ TypeOK /\ IndexInv /\ DistanceInv /\ ControlInv
        /\ RaceInv /\ DataInv /\ PeekInv
------------------------------------------------------------------------------
(* Index arithmetic. *)

\* The ring has one slot more than it holds items.
LEMMA BufferSize == buffer_size \in Nat /\ buffer_size > 1 /\ Slots = 0 .. Capacity
BY CapacityAssumption DEF buffer_size, Slots

\* The next index is the next slot, and slot 0 after the last.
LEMMA NextIdxWraps ==
  ASSUME NEW i \in Slots
  PROVE  /\ NextIdx(i) = SlotAfter(i, 1)
         /\ NextIdx(i) = IF i = Capacity THEN 0 ELSE i + 1
         /\ NextIdx(i) \in Slots
<1>1. ASSUME NEW b \in Nat, b > 1, NEW x \in 0 .. b - 1
      PROVE  (x + 1) % b = IF x + 1 < b THEN x + 1 ELSE 0
  BY <1>1, SMT
<1>2. NextIdx(i) = IF i + 1 < buffer_size THEN i + 1 ELSE 0
  BY <1>1, BufferSize DEF NextIdx, Slots
<1> QED
  BY <1>2, CapacityAssumption DEF SlotAfter, Slots, buffer_size

\* d slots further on, less than once round the ring.
LEMMA SlotAfterStep ==
  ASSUME NEW x \in 0 .. Capacity, NEW d \in 0 .. Capacity - 1
  PROVE  SlotAfter(SlotAfter(x, d), 1) = SlotAfter(x, d + 1)
BY CapacityAssumption DEF SlotAfter, buffer_size

\* The remainders of the numbers between -b and 2 * b.
LEMMA Remainder ==
  ASSUME NEW b \in Nat, b > 0
  PROVE  /\ \A x \in Int : x % b \in 0 .. b - 1
         /\ \A x \in 0 .. b - 1 : x % b = x
         /\ \A x \in Int : -b <= x /\ x < 0 => x % b = x + b
         /\ \A x \in Int : b <= x /\ x < 2 * b => x % b = x - b
<1>1. \A x \in Int : x % b \in 0 .. b - 1
  BY SMT
<1>2. \A x \in 0 .. b - 1 : x % b = x
  BY SMT
<1>3. \A x \in Int : -b <= x /\ x < 0 => x % b = x + b
  BY SMT
<1>4. \A x \in Int : b <= x /\ x < 2 * b => x % b = x - b
  BY SMT
<1> QED
  BY <1>1, <1>2, <1>3, <1>4

\* size() answers with a number from 0 to Capacity.
LEMMA SizeOfInRange ==
  ASSUME NEW h \in Slots, NEW t \in Slots
  PROVE  SizeOf(h, t) \in Slots
<1>1. ((((t - h) % WordSize) + buffer_size) % WordSize) \in Int
  <2>1. (t - h) % WordSize \in Int
    BY Remainder, WordSizeAssumption, CapacityAssumption, BufferSize
  <2> QED
    BY <2>1, Remainder, WordSizeAssumption, CapacityAssumption, BufferSize
<1> QED
  BY <1>1, Remainder, BufferSize DEF SizeOf, Slots

\* What Append does to a sequence.
LEMMA AppendFacts ==
  ASSUME NEW S, NEW s \in Seq(S), NEW e \in S
  PROVE  /\ Append(s, e) \in Seq(S)
         /\ Len(Append(s, e)) = Len(s) + 1
         /\ \A i \in 1 .. Len(s) : Append(s, e)[i] = s[i]
         /\ Append(s, e)[Len(s) + 1] = e
OBVIOUS

\* The types of the counts of stores and of what is stored.
LEMMA Counters ==
  ASSUME TypeOK
  PROVE  /\ Len(tail) \in Nat /\ Len(tail) >= 1
         /\ Len(head) \in Nat /\ Len(head) >= 1
         /\ hcAt \in 1 .. seenHead /\ seenHead \in 1 .. Len(head)
         /\ tcAt \in 1 .. seenTail /\ seenTail \in 1 .. Len(tail)
         /\ hcAt \in Nat /\ tcAt \in Nat /\ seenHead \in Nat /\ seenTail \in Nat
         /\ \A i \in 1 .. Len(tail) : tail[i] \in Slots
         /\ \A i \in 1 .. Len(head) : head[i] \in Slots
<1>1. /\ head \in Seq(Slots) /\ tail \in Seq(Slots)
      /\ Len(head) \in 1 .. MaxItems + 1 /\ Len(tail) \in 1 .. MaxItems + 1
      /\ seenHead \in 1 .. Len(head) /\ seenTail \in 1 .. Len(tail)
      /\ hcAt \in 1 .. seenHead /\ tcAt \in 1 .. seenTail
  BY DEF TypeOK, MemberTypes, ViewTypes
<1>2. /\ Len(head) \in Nat /\ Len(head) >= 1 /\ Len(tail) \in Nat /\ Len(tail) >= 1
  BY <1>1, MaxItemsAssumption
<1>3. /\ \A i \in 1 .. Len(tail) : tail[i] \in Slots
      /\ \A i \in 1 .. Len(head) : head[i] \in Slots
  BY <1>1, <1>2
<1> QED
  BY <1>1, <1>2, <1>3

\* Two positions closer than the ring is long use different slots.
LEMMA DistinctSlots ==
  ASSUME TypeOK, IndexInv,
         NEW i \in 1 .. Len(tail), NEW j \in 1 .. Len(tail),
         i < j, j - i <= Capacity
  PROVE  tail[i] # tail[j]
<1>1. tail[j] = SlotAfter(tail[i], j - i)
  BY Counters, CapacityAssumption DEF IndexInv, buffer_size
<1>2. tail[i] \in 0 .. Capacity
  BY Counters, BufferSize
<1> QED
  BY <1>1, <1>2, Counters, CapacityAssumption DEF SlotAfter, buffer_size

\* Comparing next_tail with a head index that is at most Capacity stores old
\* decides whether Capacity items lie between the two.
LEMMA FullIff ==
  ASSUME TypeOK, IndexInv,
         NEW k \in 1 .. Len(head), Len(tail) - k <= Capacity
  PROVE  IsFullAt(head[k]) <=> Len(tail) - k = Capacity
<1> DEFINE n == Len(tail)
<1>1. n \in Nat /\ k \in 1 .. n /\ tail[n] \in 0 .. Capacity /\ tail[k] \in 0 .. Capacity
  BY Counters, BufferSize DEF IndexInv
<1>2. tail[n] = SlotAfter(tail[k], n - k)
  BY <1>1, CapacityAssumption DEF IndexInv, buffer_size
<1>3. NextIdx(tail[n]) = IF tail[n] = Capacity THEN 0 ELSE tail[n] + 1
  BY <1>1, NextIdxWraps, BufferSize
<1>4. head[k] = tail[k]
  BY DEF IndexInv
<1>5. n - k \in 0 .. Capacity
  BY <1>1
<1>6. NextIdx(tail[n]) = tail[k] <=> n - k = Capacity
  BY <1>1, <1>2, <1>3, <1>5, CapacityAssumption DEF SlotAfter, buffer_size
<1> QED
  BY <1>4, <1>6 DEF IsFullAt, Newest

\* is_empty, evaluated on a store to tail, compares numbers of stores.
LEMMA EmptyIff ==
  ASSUME TypeOK, IndexInv, Len(tail) - Len(head) <= Capacity,
         NEW k \in Len(head) .. Len(tail)
  PROVE  IsEmptyAt(tail[k]) <=> k = Len(head)
<1>1. head[Len(head)] = tail[Len(head)] /\ Len(head) \in 1 .. Len(tail)
  BY Counters DEF IndexInv
<1>2. CASE k = Len(head)
  BY <1>1, <1>2 DEF IsEmptyAt, Newest
<1>3. CASE k # Len(head)
  <2>1. tail[Len(head)] # tail[k]
    BY <1>1, <1>3, Counters, DistinctSlots, CapacityAssumption
  <2> QED
    BY <1>1, <1>3, <2>1 DEF IsEmptyAt, Newest
<1> QED
  BY <1>2, <1>3
------------------------------------------------------------------------------
(* What the invariant says in any state, and at the accesses to the slots. *)

\* The counts of stores, what each thread knows of them, and their order.
LEMMA Numbers ==
  ASSUME IInv
  PROVE  /\ Len(tail) \in Nat /\ Len(head) \in Nat /\ 1 <= Len(head) /\ Len(head) <= Len(tail)
         /\ Len(tail) <= MaxItems + 1 /\ Len(tail) - Len(head) <= Capacity
         /\ hcAt \in Nat /\ seenHead \in Nat /\ tcAt \in Nat /\ seenTail \in Nat
         /\ Len(tail) - hcAt <= Capacity
         /\ 1 <= hcAt /\ hcAt <= seenHead /\ seenHead <= Len(head)
         /\ Len(head) <= tcAt /\ tcAt <= seenTail /\ seenTail <= Len(tail)
         /\ Len(got) \in Nat /\ Len(head) - 1 <= Len(got) /\ Len(got) <= Len(head)
<1>1. TypeOK /\ Len(tail) <= MaxItems + 1
  BY MaxItemsAssumption DEF IInv, TypeOK, MemberTypes
<1>2. /\ Len(tail) - hcAt <= Capacity /\ Len(head) <= tcAt /\ Len(head) <= Len(tail)
      /\ Len(got) = IF pc["C"] = "release" THEN Len(head) ELSE Len(head) - 1
  BY DEF IInv, DistanceInv, IndexInv, ControlInv
<1> QED
  BY <1>1, <1>2, Counters, CapacityAssumption

\* Every value stored to an index is a slot.
LEMMA IndexesAreSlots ==
  ASSUME IInv
  PROVE  /\ \A i \in 1 .. Len(tail) : tail[i] \in Slots
         /\ \A i \in 1 .. Len(head) : head[i] \in Slots /\ head[i] = tail[i]
BY Counters DEF IInv, IndexInv

\* The positions in the ring, and the one about to enter it, have slots of
\* their own.
LEMMA RingSlots ==
  ASSUME IInv, NEW i \in Len(head) .. Len(tail), NEW j \in Len(head) .. Len(tail), i # j
  PROVE  tail[i] # tail[j]
<1>1. TypeOK /\ IndexInv
  BY DEF IInv
<1>2. i \in 1 .. Len(tail) /\ j \in 1 .. Len(tail) /\ i - j <= Capacity /\ j - i <= Capacity
  BY Numbers, CapacityAssumption
<1>3. CASE i < j
  BY <1>1, <1>2, <1>3, DistinctSlots
<1>4. CASE j < i
  BY <1>1, <1>2, <1>4, DistinctSlots
<1> QED
  BY <1>2, <1>3, <1>4, Numbers

\* Past the check, the slot at head holds the item of the next pop.
LEMMA AtRead ==
  ASSUME IInv, pc["C"] = "read"
  PROVE  /\ Len(head) < tcAt /\ Len(head) < Len(tail) /\ Len(head) <= MaxItems
         /\ head[Len(head)] \in Slots /\ head[Len(head)] = tail[Len(head)]
         /\ Len(got) = Len(head) - 1
         /\ arr[head[Len(head)]] = Len(head)
<1>1. Len(head) < tcAt /\ Len(got) = Len(head) - 1
  BY DEF IInv, DistanceInv, ControlInv
<1>2. Len(head) < Len(tail) /\ Len(head) <= MaxItems
  BY <1>1, Numbers, MaxItemsAssumption
<1>3. head[Len(head)] \in Slots /\ head[Len(head)] = tail[Len(head)]
  BY Numbers, IndexesAreSlots
<1>4. \A i \in Len(got) + 1 .. Len(tail) - 1 : arr[tail[i]] = i
  BY DEF IInv, DataInv
<1>5. arr[tail[Len(head)]] = Len(head)
  BY <1>1, <1>2, <1>4, Numbers
<1> QED
  BY <1>1, <1>2, <1>3, <1>5

\* An access to slot s for position m, in the dates of RaceInv.
LEMMA DatedByReader ==
  ASSUME IInv, NEW m \in Nat, m = Len(head), m < tcAt,
         NEW u, u \in Slots, u = tail[m],
         NEW dates, dates = [readBy EXCEPT ![u] = m + 1]
  PROVE  \A s \in Slots : \/ dates[s] = 1
                          \/ /\ dates[s] - 1 \in 1 .. Len(head)
                             /\ tail[dates[s] - 1] = s
                             /\ dates[s] - 1 < tcAt
<1>1. readBy \in [Slots -> 1 .. MaxItems + 1] /\ m >= 1
  BY Numbers DEF IInv, TypeOK, MemberTypes
<1> SUFFICES ASSUME NEW s \in Slots
             PROVE  \/ dates[s] = 1
                    \/ /\ dates[s] - 1 \in 1 .. Len(head)
                       /\ tail[dates[s] - 1] = s
                       /\ dates[s] - 1 < tcAt
  OBVIOUS
<1>2. CASE s = u
  <2>1. dates[s] = m + 1 /\ (m + 1) - 1 = m /\ m \in 1 .. Len(head)
    BY <1>1, <1>2
  <2> QED
    BY <1>2, <2>1
<1>3. CASE s # u
  <2>1. dates[s] = readBy[s]
    BY <1>1, <1>3
  <2> QED
    BY <2>1 DEF IInv, RaceInv
<1> QED
  BY <1>2, <1>3

\* Goto moves one thread.
LEMMA GotoFacts ==
  ASSUME TypeOK, NEW t \in Threads, NEW l \in Labels, Goto(t, l)
  PROVE  /\ pc' \in [Threads -> Labels]
         /\ pc'[t] = l
         /\ \A u \in Threads \ {t} : pc'[u] = pc[u]
BY DEF TypeOK, ThreadTypes, Goto
------------------------------------------------------------------------------
(* The invariant is inductive: the initial state, then one lemma per action. *)

\* The invariant holds of the empty ring.
LEMMA InitInv == Init => IInv
<1> SUFFICES ASSUME Init PROVE IInv
  OBVIOUS
<1> USE CapacityAssumption, MaxItemsAssumption, BufferSize DEF Init
<1>1. TypeOK
  BY DEF TypeOK, MemberTypes, ThreadTypes, ViewTypes, Labels, Threads, NoItem, NoT, NoAnswer
<1>2. IndexInv
  BY DEF IndexInv, SlotAfter
<1>3. DistanceInv /\ ControlInv
  BY DEF DistanceInv, ControlInv, Threads
<1>4. RaceInv /\ PeekInv
  BY DEF RaceInv, PeekInv
<1>5. DataInv
  BY DEF DataInv, Threads
<1> QED
  BY <1>1, <1>2, <1>3, <1>4, <1>5 DEF IInv


\* Each action keeps the invariant: the call of a push,
LEMMA PushCallInv ==
  ASSUME IInv, NEW o \in PushOps, PushCall(o)
  PROVE  IInv'
<1>1. /\ UNCHANGED <<head, tail, arr, wrote, readBy, got, peeked, tail_cache, tcAt,
                     seenTail, head_cache, hcAt, seenHead, loaded, answer>>
      /\ op' = [op EXCEPT !["P"] = o] /\ value' = Len(tail) /\ Len(tail) <= MaxItems
  BY DEF PushCall, Call, memVars, consVars, queryVars
<1>2. pc' \in [Threads -> Labels] /\ pc'["P"] = "check" /\ pc'["C"] = pc["C"]
  BY GotoFacts DEF PushCall, Call, Threads, Labels, IInv
<1>3. TypeOK'
  <2>1. MemberTypes' /\ ViewTypes'
    BY <1>1 DEF IInv, TypeOK, MemberTypes, ViewTypes
  <2>2. Len(tail) \in 0 .. MaxItems
    BY <1>1, Numbers, MaxItemsAssumption
  <2>3. ThreadTypes'
    BY <1>1, <1>2, <2>2 DEF IInv, TypeOK, ThreadTypes, Threads
  <2> QED
    BY <2>1, <2>3 DEF TypeOK
<1>4. IndexInv' /\ RaceInv' /\ PeekInv'
  BY <1>1 DEF IInv, IndexInv, RaceInv, PeekInv
<1>5. DistanceInv' /\ ControlInv'
  BY <1>1, <1>2 DEF IInv, DistanceInv, ControlInv
<1>6. DataInv'
  BY <1>1, <1>2 DEF IInv, DataInv
<1> QED
  BY <1>3, <1>4, <1>5, <1>6 DEF IInv

\* its test against the cached head,
LEMMA PushCheckInv ==
  ASSUME IInv, PushCheck
  PROVE  IInv'
<1> DEFINE l == IF IsFullAt(head_cache) THEN "reload" ELSE "write"
<1>1. /\ UNCHANGED <<head, tail, arr, wrote, readBy, got, peeked, tail_cache, tcAt,
                     seenTail, value, head_cache, hcAt, seenHead, loaded, answer, op>>
      /\ pc["P"] = "check"
  BY DEF PushCheck, memVars, prodVars, consVars, queryVars
<1>2. pc' \in [Threads -> Labels] /\ pc'["P"] = l /\ pc'["C"] = pc["C"]
  BY GotoFacts DEF PushCheck, Threads, Labels, IInv
<1>3. TypeOK'
  BY <1>1, <1>2 DEF IInv, TypeOK, MemberTypes, ViewTypes, ThreadTypes
<1>4. IndexInv' /\ RaceInv' /\ PeekInv'
  BY <1>1 DEF IInv, IndexInv, RaceInv, PeekInv
<1>5. IsFullAt(head[hcAt]) <=> Len(tail) - hcAt = Capacity
  <2>1. hcAt \in 1 .. Len(head) /\ Len(tail) - hcAt <= Capacity
    BY Numbers DEF IInv, DistanceInv
  <2> QED
    BY <2>1, FullIff DEF IInv
<1>6. l \in {"reload", "write"} /\ (l = "write" => Len(tail) - hcAt < Capacity)
  BY <1>5, Numbers, CapacityAssumption DEF IInv, DistanceInv
<1>7. DistanceInv' /\ ControlInv'
  BY <1>1, <1>2, <1>6 DEF IInv, DistanceInv, ControlInv
<1>8. DataInv'
  BY <1>1, <1>2, <1>6 DEF IInv, DataInv
<1> QED
  BY <1>3, <1>4, <1>7, <1>8 DEF IInv

\* the load of head into the cache,
LEMMA PushReloadInv ==
  ASSUME IInv, NEW k \in 1 .. Len(head), PushReload(k)
  PROVE  IInv'
<1> DEFINE l == IF IsFullAt(head[k])
                THEN IF op["P"] = "wait_and_push" THEN "check" ELSE "idle"
                ELSE "write"
<1>1. /\ UNCHANGED <<head, tail, arr, wrote, readBy, got, peeked, tail_cache, tcAt,
                     seenTail, loaded, answer, op>>
      /\ pc["P"] = "reload" /\ k \in seenHead .. Len(head)
      /\ head_cache' = head[k] /\ hcAt' = k /\ seenHead' = k
      /\ value' = IF IsFullAt(head[k]) /\ op["P"] # "wait_and_push" THEN NoItem ELSE value
  BY DEF PushReload, AfterLoad, ValueAfterFull, memVars, consVars, queryVars
<1>2. pc' \in [Threads -> Labels] /\ pc'["P"] = l /\ pc'["C"] = pc["C"]
  <2>1. Goto("P", l) /\ l \in Labels /\ "P" \in Threads /\ "C" \in Threads \ {"P"}
    BY DEF PushReload, Labels, Threads
  <2> QED
    BY <2>1, GotoFacts DEF IInv
<1>3. TypeOK'
  <2>1. MemberTypes'
    BY <1>1 DEF IInv, TypeOK, MemberTypes
  <2>2. value' \in 0 .. MaxItems
    BY <1>1, MaxItemsAssumption DEF IInv, TypeOK, ThreadTypes, NoItem
  <2>3. ThreadTypes'
    BY <1>1, <1>2, <2>2 DEF IInv, TypeOK, ThreadTypes
  <2>4. ViewTypes'
    BY <1>1, Numbers, IndexesAreSlots DEF IInv, TypeOK, ViewTypes
  <2> QED
    BY <2>1, <2>3, <2>4 DEF TypeOK
<1>4. IndexInv' /\ RaceInv' /\ PeekInv'
  BY <1>1 DEF IInv, IndexInv, RaceInv, PeekInv
<1>5. Len(tail) - k <= Capacity
  BY <1>1, Numbers, CapacityAssumption
<1>6. IsFullAt(head[k]) <=> Len(tail) - k = Capacity
  BY <1>5, FullIff DEF IInv
<1>7. l = "write" => Len(tail) - k < Capacity
  BY <1>1, <1>5, <1>6, Numbers, CapacityAssumption
<1>8. DistanceInv' /\ ControlInv'
  BY <1>1, <1>2, <1>5, <1>7 DEF IInv, DistanceInv, ControlInv
<1>9. DataInv'
  BY <1>1, <1>2 DEF IInv, DataInv
<1> QED
  BY <1>3, <1>4, <1>8, <1>9 DEF IInv

\* the write of the slot,
LEMMA PushWriteInv ==
  ASSUME IInv, PushWrite
  PROVE  IInv'
<1> DEFINE n == Len(tail)
<1>1. /\ UNCHANGED <<head, tail, readBy, head_cache, hcAt, seenHead, got, peeked,
                     tail_cache, tcAt, seenTail, loaded, answer, op>>
      /\ arr' = [arr EXCEPT ![tail[n]] = value]
      /\ wrote' = [wrote EXCEPT ![tail[n]] = n + 1]
      /\ value' = NoItem
      /\ pc["P"] = "write"
  BY DEF PushWrite, Newest, consVars, queryVars
<1>2. pc' \in [Threads -> Labels] /\ pc'["P"] = "publish" /\ pc'["C"] = pc["C"]
  BY GotoFacts DEF PushWrite, Threads, Labels, IInv
<1>3. n \in 1 .. n /\ n \in Nat /\ tail[n] \in Slots /\ n <= MaxItems /\ value = n
  BY <1>1, Numbers, IndexesAreSlots DEF IInv, ControlInv, DataInv
<1>4. TypeOK'
  <2>1. value \in NoT .. MaxItems /\ n + 1 \in 1 .. MaxItems + 1
    BY <1>3, Numbers, MaxItemsAssumption DEF NoT
  <2>2. MemberTypes'
    BY <1>1, <1>3, <2>1 DEF IInv, TypeOK, MemberTypes
  <2>3. ThreadTypes' /\ ViewTypes'
    BY <1>1, <1>2, MaxItemsAssumption DEF IInv, TypeOK, ThreadTypes, ViewTypes, NoItem
  <2> QED
    BY <2>2, <2>3 DEF TypeOK
<1>5. IndexInv' /\ PeekInv'
  BY <1>1 DEF IInv, IndexInv, PeekInv
<1>6. DistanceInv' /\ ControlInv'
  BY <1>1, <1>2 DEF IInv, DistanceInv, ControlInv
<1>7. RaceInv'
  <2>1. ASSUME NEW s \in Slots
        PROVE  wrote'[s] = 1 \/ (wrote'[s] - 1 \in 1 .. n /\ tail[wrote'[s] - 1] = s)
    <3>1. CASE s = tail[n]
      <4>1. wrote'[s] = n + 1
        BY <1>1, <1>3, <3>1 DEF IInv, TypeOK, MemberTypes
      <4> QED
        BY <4>1, <3>1, <1>3
    <3>2. CASE s # tail[n]
      <4>1. wrote'[s] = wrote[s]
        BY <1>1, <1>3, <3>2 DEF IInv, TypeOK, MemberTypes
      <4> QED
        BY <4>1 DEF IInv, RaceInv
    <3> QED
      BY <3>1, <3>2
  <2> QED
    BY <1>1, <2>1 DEF IInv, RaceInv
<1>8. DataInv'
  <2>1. arr \in [Slots -> NoT .. MaxItems]
    BY DEF IInv, TypeOK, MemberTypes
  <2>2. ASSUME NEW i \in Len(got) + 1 .. n - 1 PROVE arr'[tail[i]] = i
    <3>1. i \in Len(head) .. n /\ n \in Len(head) .. n /\ i # n /\ i \in 1 .. n
      BY <1>3, Numbers
    <3>2. tail[i] # tail[n] /\ tail[i] \in Slots
      BY <3>1, RingSlots, IndexesAreSlots
    <3>3. arr[tail[i]] = i
      BY DEF IInv, DataInv
    <3> QED
      BY <1>1, <2>1, <3>2, <3>3
  <2>3. arr'[tail[n]] = n
    BY <1>1, <1>3, <2>1
  <2> QED
    BY <1>1, <1>2, <2>2, <2>3 DEF IInv, DataInv
<1> QED
  BY <1>4, <1>5, <1>6, <1>7, <1>8 DEF IInv

\* the write that throws,
LEMMA PushThrowInv ==
  ASSUME IInv, PushThrow
  PROVE  IInv'
<1> DEFINE n == Len(tail)
<1>1. /\ UNCHANGED <<head, tail, readBy, head_cache, hcAt, seenHead, got, peeked,
                     tail_cache, tcAt, seenTail, loaded, answer, op>>
      /\ arr' = [arr EXCEPT ![tail[n]] = IF op["P"] = "try_emplace" THEN NoT ELSE @]
      /\ wrote' = [wrote EXCEPT ![tail[n]] = n + 1]
      /\ value' = NoItem
      /\ pc["P"] = "write"
  BY DEF PushThrow, Newest, consVars, queryVars
<1>2. pc' \in [Threads -> Labels] /\ pc'["P"] = "idle" /\ pc'["C"] = pc["C"]
  BY GotoFacts DEF PushThrow, Threads, Labels, IInv
<1>3. n \in 1 .. n /\ n \in Nat /\ tail[n] \in Slots /\ n <= MaxItems /\ value = n
  BY <1>1, Numbers, IndexesAreSlots DEF IInv, ControlInv, DataInv
<1>4. TypeOK'
  <2>1. NoT \in NoT .. MaxItems /\ n + 1 \in 1 .. MaxItems + 1
    BY <1>3, Numbers, MaxItemsAssumption DEF NoT
  <2>2. MemberTypes'
    BY <1>1, <1>3, <2>1 DEF IInv, TypeOK, MemberTypes
  <2>3. ThreadTypes' /\ ViewTypes'
    BY <1>1, <1>2, MaxItemsAssumption DEF IInv, TypeOK, ThreadTypes, ViewTypes, NoItem
  <2> QED
    BY <2>2, <2>3 DEF TypeOK
<1>5. IndexInv' /\ PeekInv'
  BY <1>1 DEF IInv, IndexInv, PeekInv
<1>6. DistanceInv' /\ ControlInv'
  BY <1>1, <1>2 DEF IInv, DistanceInv, ControlInv
<1>7. RaceInv'
  <2>1. ASSUME NEW s \in Slots
        PROVE  wrote'[s] = 1 \/ (wrote'[s] - 1 \in 1 .. n /\ tail[wrote'[s] - 1] = s)
    <3>1. CASE s = tail[n]
      <4>1. wrote'[s] = n + 1
        BY <1>1, <1>3, <3>1 DEF IInv, TypeOK, MemberTypes
      <4> QED
        BY <4>1, <3>1, <1>3
    <3>2. CASE s # tail[n]
      <4>1. wrote'[s] = wrote[s]
        BY <1>1, <1>3, <3>2 DEF IInv, TypeOK, MemberTypes
      <4> QED
        BY <4>1 DEF IInv, RaceInv
    <3> QED
      BY <3>1, <3>2
  <2> QED
    BY <1>1, <2>1 DEF IInv, RaceInv
<1>8. DataInv'
  <2>1. arr \in [Slots -> NoT .. MaxItems]
    BY DEF IInv, TypeOK, MemberTypes
  <2>2. ASSUME NEW i \in Len(got) + 1 .. n - 1 PROVE arr'[tail[i]] = i
    <3>1. i \in Len(head) .. n /\ n \in Len(head) .. n /\ i # n /\ i \in 1 .. n
      BY <1>3, Numbers
    <3>2. tail[i] # tail[n] /\ tail[i] \in Slots
      BY <3>1, RingSlots, IndexesAreSlots
    <3>3. arr[tail[i]] = i
      BY DEF IInv, DataInv
    <3> QED
      BY <1>1, <2>1, <3>2, <3>3
  <2> QED
    BY <1>1, <1>2, <2>2 DEF IInv, DataInv
<1> QED
  BY <1>4, <1>5, <1>6, <1>7, <1>8 DEF IInv

\* and the store to tail;
LEMMA PushPublishInv ==
  ASSUME IInv, PushPublish
  PROVE  IInv'
<1> DEFINE n == Len(tail)
<1>1. /\ UNCHANGED <<head, arr, wrote, readBy, value, head_cache, hcAt, seenHead, got,
                     peeked, tail_cache, tcAt, seenTail, loaded, answer, op>>
      /\ tail' = Append(tail, NextIdx(tail[n]))
      /\ pc["P"] = "publish"
  BY DEF PushPublish, Newest, prodVars, consVars, queryVars
<1>2. pc' \in [Threads -> Labels] /\ pc'["P"] = "idle" /\ pc'["C"] = pc["C"]
  BY GotoFacts DEF PushPublish, Threads, Labels, IInv
<1>3. n \in Nat /\ n >= 1 /\ n \in 1 .. n /\ tail[n] \in Slots /\ n <= MaxItems
  BY <1>1, Numbers, IndexesAreSlots DEF IInv, ControlInv
<1>4. NextIdx(tail[n]) \in Slots /\ NextIdx(tail[n]) = SlotAfter(tail[n], 1)
  BY <1>3, NextIdxWraps
<1>5. /\ tail' \in Seq(Slots) /\ Len(tail') = n + 1
      /\ \A i \in 1 .. n : tail'[i] = tail[i]
      /\ tail'[n + 1] = NextIdx(tail[n])
  <2>1. tail \in Seq(Slots)
    BY DEF IInv, TypeOK, MemberTypes
  <2> QED
    BY <1>1, <1>4, <2>1, AppendFacts
<1>6. TypeOK'
  <2>1. Len(tail') \in 1 .. MaxItems + 1
    BY <1>3, <1>5, MaxItemsAssumption
  <2>2. MemberTypes'
    BY <1>1, <1>5, <2>1 DEF IInv, TypeOK, MemberTypes
  <2>3. seenTail \in 1 .. Len(tail')
    BY <1>3, <1>5, Numbers
  <2>4. ThreadTypes' /\ ViewTypes'
    BY <1>1, <1>2, <2>3 DEF IInv, TypeOK, ThreadTypes, ViewTypes
  <2> QED
    BY <2>2, <2>4 DEF TypeOK
<1>7. IndexInv'
  <2>1. ASSUME NEW i \in 1 .. n + 1, NEW j \in 1 .. n + 1, i <= j, j - i < buffer_size
        PROVE  tail'[j] = SlotAfter(tail'[i], j - i)
    <3>1. CASE j <= n
      <4>1. i \in 1 .. n /\ j \in 1 .. n
        BY <1>3, <2>1, <3>1
      <4> QED
        BY <1>5, <2>1, <4>1 DEF IInv, IndexInv
    <3>2. CASE i = n + 1
      <4>1. j = i /\ j - i = 0 /\ tail'[j] \in 0 .. Capacity
        BY <1>3, <1>4, <1>5, <2>1, <3>2, BufferSize
      <4> QED
        BY <4>1, CapacityAssumption DEF SlotAfter, buffer_size
    <3>3. CASE j = n + 1 /\ i <= n
      <4>1. i \in 1 .. n /\ n - i \in 0 .. Capacity - 1 /\ n - i < buffer_size /\ i <= n
        BY <1>3, <2>1, <3>3, CapacityAssumption DEF buffer_size
      <4>2. tail[n] = SlotAfter(tail[i], n - i)
        BY <1>3, <4>1 DEF IInv, IndexInv
      <4>3. tail[i] \in 0 .. Capacity
        BY <4>1, IndexesAreSlots, BufferSize
      <4>4. SlotAfter(SlotAfter(tail[i], n - i), 1) = SlotAfter(tail[i], (n - i) + 1)
        BY <4>1, <4>3, SlotAfterStep
      <4>5. (n - i) + 1 = j - i
        BY <1>3, <3>3, <4>1
      <4> QED
        BY <1>4, <1>5, <3>3, <4>1, <4>2, <4>4, <4>5
    <3> QED
      BY <1>3, <2>1, <3>1, <3>2, <3>3
  <2>2. ASSUME NEW i \in 1 .. n PROVE tail'[i + 1] = NextIdx(tail'[i])
    <3>1. CASE i = n
      BY <1>5, <3>1
    <3>2. CASE i # n
      <4>1. i \in 1 .. n - 1 /\ i + 1 \in 1 .. n
        BY <1>3, <3>2
      <4> QED
        BY <1>5, <4>1 DEF IInv, IndexInv
    <3> QED
      BY <3>1, <3>2
  <2>3. ASSUME NEW i \in 1 .. Len(head) PROVE head[i] = tail'[i]
    <3>1. i \in 1 .. n
      BY Numbers
    <3> QED
      BY <1>5, <3>1, IndexesAreSlots
  <2>4. Len(head) <= n + 1 /\ (n + 1) - 1 = n
    BY Numbers
  <2> QED
    BY <1>1, <1>5, <2>1, <2>2, <2>3, <2>4 DEF IndexInv
<1>8. DistanceInv'
  <2>1. (n + 1) - hcAt <= Capacity
    BY <1>1, <1>3, Numbers, CapacityAssumption DEF IInv, DistanceInv
  <2>2. tcAt \in 1 .. n /\ tail'[tcAt] = tail[tcAt]
    BY <1>5, Numbers
  <2> QED
    BY <1>1, <1>2, <1>5, <2>1, <2>2 DEF IInv, DistanceInv
<1>9. ControlInv'
  BY <1>1, <1>2 DEF IInv, ControlInv
<1>10. RaceInv'
  <2>1. ASSUME NEW s \in Slots
        PROVE  wrote[s] = 1 \/ (wrote[s] - 1 \in 1 .. n + 1 /\ tail'[wrote[s] - 1] = s)
    BY <1>3, <1>5 DEF IInv, RaceInv
  <2>2. ASSUME NEW s \in Slots
        PROVE  readBy[s] = 1 \/ (/\ readBy[s] - 1 \in 1 .. Len(head)
                                 /\ tail'[readBy[s] - 1] = s
                                 /\ readBy[s] - 1 < tcAt)
    <3>1. ASSUME readBy[s] # 1
          PROVE  readBy[s] - 1 \in 1 .. n /\ readBy[s] - 1 \in 1 .. Len(head)
      BY <3>1, Numbers DEF IInv, RaceInv
    <3> QED
      BY <1>5, <3>1 DEF IInv, RaceInv
  <2> QED
    BY <1>1, <1>5, <2>1, <2>2 DEF RaceInv
<1>11. DataInv'
  <2>1. ASSUME NEW i \in Len(got) + 1 .. n PROVE arr[tail'[i]] = i
    <3>1. i \in 1 .. n
      BY Numbers
    <3>2. CASE i = n
      BY <1>1, <1>5, <3>1, <3>2 DEF IInv, DataInv
    <3>3. CASE i # n
      <4>1. i \in Len(got) + 1 .. n - 1
        BY <3>1, <3>3, Numbers
      <4> QED
        BY <1>5, <3>1, <4>1 DEF IInv, DataInv
    <3> QED
      BY <3>2, <3>3
  <2>2. (n + 1) - 1 = n
    BY <1>3
  <2> QED
    BY <1>1, <1>2, <1>5, <2>1, <2>2 DEF IInv, DataInv
<1>12. PeekInv'
  BY <1>1 DEF IInv, PeekInv
<1> QED
  BY <1>6, <1>7, <1>8, <1>9, <1>10, <1>11, <1>12 DEF IInv

\* the call of a pop or a peek,
LEMMA PopCallInv ==
  ASSUME IInv, NEW o \in PopOps, PopCall(o)
  PROVE  IInv'
<1>1. /\ UNCHANGED <<head, tail, arr, wrote, readBy, got, peeked, tail_cache, tcAt,
                     seenTail, value, head_cache, hcAt, seenHead, loaded, answer>>
      /\ op' = [op EXCEPT !["C"] = o] /\ pc["C"] = "idle"
  BY DEF PopCall, Call, memVars, prodVars, consVars, queryVars
<1>2. pc' \in [Threads -> Labels] /\ pc'["C"] = "check" /\ pc'["P"] = pc["P"]
  BY GotoFacts DEF PopCall, Call, Threads, Labels, IInv
<1>3. TypeOK'
  <2>1. MemberTypes' /\ ViewTypes'
    BY <1>1 DEF IInv, TypeOK, MemberTypes, ViewTypes
  <2>2. ThreadTypes'
    BY <1>1, <1>2 DEF IInv, TypeOK, ThreadTypes, Threads
  <2> QED
    BY <2>1, <2>2 DEF TypeOK
<1>4. IndexInv' /\ RaceInv' /\ PeekInv'
  BY <1>1 DEF IInv, IndexInv, RaceInv, PeekInv
<1>5. DistanceInv' /\ ControlInv'
  BY <1>1, <1>2 DEF IInv, DistanceInv, ControlInv
<1>6. DataInv'
  BY <1>1, <1>2 DEF IInv, DataInv
<1> QED
  BY <1>3, <1>4, <1>5, <1>6 DEF IInv

\* its test against the cached tail,
LEMMA PopCheckInv ==
  ASSUME IInv, PopCheck
  PROVE  IInv'
<1> DEFINE l == IF IsEmptyAt(tail_cache) THEN "reload" ELSE "read"
<1>1. /\ UNCHANGED <<head, tail, arr, wrote, readBy, got, peeked, tail_cache, tcAt,
                     seenTail, value, head_cache, hcAt, seenHead, loaded, answer, op>>
      /\ pc["C"] = "check"
  BY DEF PopCheck, memVars, prodVars, consVars, queryVars
<1>2. pc' \in [Threads -> Labels] /\ pc'["C"] = l /\ pc'["P"] = pc["P"]
  BY GotoFacts DEF PopCheck, Threads, Labels, IInv
<1>3. TypeOK'
  BY <1>1, <1>2 DEF IInv, TypeOK, MemberTypes, ViewTypes, ThreadTypes
<1>4. IndexInv' /\ RaceInv' /\ PeekInv'
  BY <1>1 DEF IInv, IndexInv, RaceInv, PeekInv
<1>5. IsEmptyAt(tail[tcAt]) <=> tcAt = Len(head)
  <2>1. tcAt \in Len(head) .. Len(tail) /\ Len(tail) - Len(head) <= Capacity
    BY Numbers
  <2> QED
    BY <2>1, EmptyIff DEF IInv
<1>6. /\ l = "read" => Len(head) < tcAt
      /\ l = "reload" => Len(head) = tcAt
      /\ l \in {"read", "reload"}
  BY <1>5, Numbers DEF IInv, DistanceInv
<1>7. DistanceInv' /\ ControlInv'
  BY <1>1, <1>2, <1>6 DEF IInv, DistanceInv, ControlInv
<1>8. DataInv'
  BY <1>1, <1>2 DEF IInv, DataInv
<1> QED
  BY <1>3, <1>4, <1>7, <1>8 DEF IInv

\* the load of tail into the cache,
LEMMA PopReloadInv ==
  ASSUME IInv, NEW k \in 1 .. Len(tail), PopReload(k)
  PROVE  IInv'
<1> DEFINE l == IF ~IsEmptyAt(tail[k]) THEN "read"
                ELSE IF op["C"] = "wait_and_pop" THEN "check" ELSE "idle"
<1>1. /\ UNCHANGED <<head, tail, arr, wrote, readBy, got, peeked, value, head_cache,
                     hcAt, seenHead, loaded, answer, op>>
      /\ pc["C"] = "reload" /\ k \in seenTail .. Len(tail)
      /\ tail_cache' = tail[k] /\ tcAt' = k /\ seenTail' = k
  BY DEF PopReload, AfterLoad, memVars, prodVars, queryVars
<1>2. pc' \in [Threads -> Labels] /\ pc'["C"] = l /\ pc'["P"] = pc["P"]
  <2>1. Goto("C", l) /\ l \in Labels /\ "C" \in Threads /\ "P" \in Threads \ {"C"}
    BY DEF PopReload, Labels, Threads
  <2> QED
    BY <2>1, GotoFacts DEF IInv
<1>3. TypeOK'
  <2>1. MemberTypes' /\ ThreadTypes'
    BY <1>1, <1>2 DEF IInv, TypeOK, MemberTypes, ThreadTypes
  <2>2. ViewTypes'
    BY <1>1, Numbers, IndexesAreSlots DEF IInv, TypeOK, ViewTypes
  <2> QED
    BY <2>1, <2>2 DEF TypeOK
<1>4. tcAt <= k /\ Len(head) <= k /\ k \in Len(head) .. Len(tail)
  BY <1>1, Numbers
<1>5. IndexInv' /\ RaceInv' /\ PeekInv'
  <2>1. ASSUME NEW x \in Int, x < tcAt PROVE x < k
    BY <1>4, <2>1, Numbers
  <2>2. RaceInv'
    <3>1. \A s \in Slots : readBy[s] \in Int
      BY MaxItemsAssumption DEF IInv, TypeOK, MemberTypes
    <3> QED
      BY <1>1, <2>1, <3>1 DEF IInv, RaceInv
  <2>3. IndexInv'
    BY <1>1 DEF IInv, IndexInv
  <2>4. Len(head) < tcAt => Len(head) < k
    BY <2>1, Numbers
  <2>5. PeekInv'
    BY <1>1, <2>4 DEF IInv, PeekInv
  <2> QED
    BY <2>2, <2>3, <2>5
<1>6. IsEmptyAt(tail[k]) <=> k = Len(head)
  BY <1>4, Numbers, EmptyIff DEF IInv
<1>7. /\ l \in {"read", "check", "idle"}
      /\ l = "read" => Len(head) < k
  BY <1>4, <1>6, Numbers
<1>8. DistanceInv' /\ ControlInv'
  BY <1>1, <1>2, <1>4, <1>7 DEF IInv, DistanceInv, ControlInv
<1>9. DataInv'
  BY <1>1, <1>2 DEF IInv, DataInv
<1> QED
  BY <1>3, <1>5, <1>8, <1>9 DEF IInv

\* the read of a peek,
LEMMA PeekReadInv ==
  ASSUME IInv, PeekRead
  PROVE  IInv'
<1> DEFINE m == Len(head)
<1>1. /\ UNCHANGED <<head, tail, arr, wrote, got, tail_cache, tcAt, seenTail, value,
                     head_cache, hcAt, seenHead, loaded, answer, op>>
      /\ peeked' = arr[head[m]]
      /\ readBy' = [readBy EXCEPT ![head[m]] = m + 1]
      /\ pc["C"] = "read"
  BY DEF PeekRead, Newest, prodVars, queryVars
<1>2. pc' \in [Threads -> Labels] /\ pc'["C"] = "idle" /\ pc'["P"] = pc["P"]
  BY GotoFacts DEF PeekRead, Threads, Labels, IInv
<1>3. /\ m \in Nat /\ m \in 1 .. m /\ m < tcAt /\ m <= MaxItems
      /\ head[m] \in Slots /\ head[m] = tail[m] /\ arr[head[m]] = m
  BY <1>1, Numbers, AtRead
<1>4. TypeOK'
  <2>1. m \in 0 .. MaxItems /\ m + 1 \in 1 .. MaxItems + 1
    BY <1>3, MaxItemsAssumption
  <2>2. MemberTypes'
    BY <1>1, <1>3, <2>1 DEF IInv, TypeOK, MemberTypes
  <2>3. ThreadTypes' /\ ViewTypes'
    BY <1>1, <1>2, <1>3, <2>1 DEF IInv, TypeOK, ThreadTypes, ViewTypes
  <2> QED
    BY <2>2, <2>3 DEF TypeOK
<1>5. IndexInv' /\ PeekInv'
  BY <1>1, <1>3 DEF IInv, IndexInv, PeekInv
<1>6. DistanceInv' /\ ControlInv'
  BY <1>1, <1>2 DEF IInv, DistanceInv, ControlInv
<1>7. RaceInv'
  BY <1>1, <1>3, DatedByReader DEF IInv, RaceInv
<1>8. DataInv'
  BY <1>1, <1>2 DEF IInv, DataInv
<1> QED
  BY <1>4, <1>5, <1>6, <1>7, <1>8 DEF IInv

\* the read that throws,
LEMMA PopThrowInv ==
  ASSUME IInv, PopThrow
  PROVE  IInv'
<1> DEFINE m == Len(head)
<1>1. /\ UNCHANGED <<head, tail, arr, wrote, got, peeked, tail_cache, tcAt, seenTail,
                     value, head_cache, hcAt, seenHead, loaded, answer, op>>
      /\ readBy' = [readBy EXCEPT ![head[m]] = m + 1]
      /\ pc["C"] = "read"
  BY DEF PopThrow, Newest, prodVars, consVars, queryVars
<1>2. pc' \in [Threads -> Labels] /\ pc'["C"] = "idle" /\ pc'["P"] = pc["P"]
  BY GotoFacts DEF PopThrow, Threads, Labels, IInv
<1>3. /\ m \in Nat /\ m < tcAt /\ m + 1 \in 1 .. MaxItems + 1
      /\ head[m] \in Slots /\ head[m] = tail[m]
  BY <1>1, Numbers, AtRead, MaxItemsAssumption
<1>4. TypeOK'
  BY <1>1, <1>2, <1>3 DEF IInv, TypeOK, MemberTypes, ThreadTypes, ViewTypes
<1>5. IndexInv' /\ PeekInv'
  BY <1>1 DEF IInv, IndexInv, PeekInv
<1>6. DistanceInv' /\ ControlInv'
  BY <1>1, <1>2 DEF IInv, DistanceInv, ControlInv
<1>7. RaceInv'
  BY <1>1, <1>3, DatedByReader DEF IInv, RaceInv
<1>8. DataInv'
  BY <1>1, <1>2 DEF IInv, DataInv
<1> QED
  BY <1>4, <1>5, <1>6, <1>7, <1>8 DEF IInv

\* the read of a pop,
LEMMA PopReadInv ==
  ASSUME IInv, PopRead
  PROVE  IInv'
<1> DEFINE m == Len(head)
<1> DEFINE n == Len(tail)
<1>1. /\ UNCHANGED <<head, tail, wrote, peeked, tail_cache, tcAt, seenTail, value,
                     head_cache, hcAt, seenHead, loaded, answer, op>>
      /\ got' = Append(got, arr[head[m]])
      /\ arr' = [arr EXCEPT ![head[m]] = NoItem]
      /\ readBy' = [readBy EXCEPT ![head[m]] = m + 1]
      /\ pc["C"] = "read"
  BY DEF PopRead, Newest, prodVars, queryVars
<1>2. pc' \in [Threads -> Labels] /\ pc'["C"] = "release" /\ pc'["P"] = pc["P"]
  BY GotoFacts DEF PopRead, Threads, Labels, IInv
<1>3. /\ m \in Nat /\ m \in 1 .. m /\ m < tcAt /\ m < n /\ n \in Nat /\ m <= MaxItems
      /\ head[m] \in Slots /\ head[m] = tail[m] /\ arr[head[m]] = m
      /\ Len(got) = m - 1
  BY <1>1, Numbers, AtRead
<1>4. m \in 0 .. MaxItems /\ m + 1 \in 1 .. MaxItems + 1 /\ NoItem \in NoT .. MaxItems
  BY <1>3, MaxItemsAssumption DEF NoItem, NoT
<1>5. /\ got' \in Seq(0 .. MaxItems) /\ Len(got') = m
      /\ \A i \in 1 .. m - 1 : got'[i] = got[i]
      /\ got'[m] = m
  <2>1. got \in Seq(0 .. MaxItems) /\ (m - 1) + 1 = m
    BY <1>3 DEF IInv, TypeOK, ThreadTypes
  <2> QED
    BY <1>1, <1>3, <1>4, <2>1, AppendFacts
<1>6. TypeOK'
  <2>1. MemberTypes'
    BY <1>1, <1>3, <1>4 DEF IInv, TypeOK, MemberTypes
  <2>2. ThreadTypes' /\ ViewTypes'
    BY <1>1, <1>2, <1>5 DEF IInv, TypeOK, ThreadTypes, ViewTypes
  <2> QED
    BY <2>1, <2>2 DEF TypeOK
<1>7. IndexInv' /\ PeekInv'
  BY <1>1 DEF IInv, IndexInv, PeekInv
<1>8. DistanceInv' /\ ControlInv'
  BY <1>1, <1>2, <1>3, <1>5 DEF IInv, DistanceInv, ControlInv
<1>9. RaceInv'
  BY <1>1, <1>3, DatedByReader DEF IInv, RaceInv
<1>10. ASSUME NEW i \in m + 1 .. n PROVE arr'[tail[i]] = arr[tail[i]]
  <2>1. i \in m .. n /\ m \in m .. n /\ i # m /\ i \in 1 .. n
    BY <1>3, Numbers
  <2>2. tail[i] # tail[m] /\ tail[i] \in Slots
    BY <2>1, RingSlots, IndexesAreSlots
  <2> QED
    BY <1>1, <1>3, <2>2 DEF IInv, TypeOK, MemberTypes
<1>11. DataInv'
  <2>1. ASSUME NEW i \in 1 .. Len(got') PROVE got'[i] = i
    <3>1. i = m \/ i \in 1 .. m - 1
      BY <1>3, <1>5
    <3> QED
      BY <1>3, <1>5, <3>1 DEF IInv, DataInv
  <2>2. ASSUME NEW i \in Len(got') + 1 .. n - 1 PROVE arr'[tail[i]] = i
    <3>1. i \in m + 1 .. n /\ i \in Len(got) + 1 .. n - 1
      BY <1>3, <1>5
    <3> QED
      BY <1>10, <3>1 DEF IInv, DataInv
  <2>3. n \in m + 1 .. n
    BY <1>3
  <2> QED
    BY <1>1, <1>2, <1>10, <2>1, <2>2, <2>3 DEF IInv, DataInv
<1> QED
  BY <1>6, <1>7, <1>8, <1>9, <1>11 DEF IInv

\* and the store to head;
LEMMA PopReleaseInv ==
  ASSUME IInv, PopRelease
  PROVE  IInv'
<1> DEFINE m == Len(head)
<1>1. /\ UNCHANGED <<tail, arr, wrote, readBy, got, tail_cache, tcAt, seenTail, value,
                     head_cache, hcAt, seenHead, loaded, answer, op>>
      /\ head' = Append(head, NextIdx(head[m]))
      /\ peeked' = NoItem
      /\ pc["C"] = "release"
  BY DEF PopRelease, Newest, prodVars, queryVars
<1>2. pc' \in [Threads -> Labels] /\ pc'["C"] = "idle" /\ pc'["P"] = pc["P"]
  BY GotoFacts DEF PopRelease, Threads, Labels, IInv
<1>3. /\ m \in Nat /\ m \in 1 .. m /\ m + 1 <= tcAt /\ m + 1 \in 1 .. Len(tail)
      /\ m \in 1 .. Len(tail) - 1 /\ Len(tail) <= MaxItems + 1
      /\ head[m] \in Slots /\ head[m] = tail[m] /\ Len(got) = m
  <2>1. m < tcAt /\ Len(got) = m
    BY <1>1 DEF IInv, DistanceInv, ControlInv
  <2> QED
    BY <2>1, Numbers, IndexesAreSlots
<1>4. NextIdx(head[m]) \in Slots /\ NextIdx(head[m]) = tail[m + 1]
  BY <1>3, NextIdxWraps DEF IInv, IndexInv
<1>5. /\ head' \in Seq(Slots) /\ Len(head') = m + 1
      /\ \A i \in 1 .. m : head'[i] = head[i]
      /\ head'[m + 1] = tail[m + 1]
  <2>1. head \in Seq(Slots)
    BY DEF IInv, TypeOK, MemberTypes
  <2> QED
    BY <1>1, <1>4, <2>1, AppendFacts
<1>6. TypeOK'
  <2>1. Len(head') \in 1 .. MaxItems + 1 /\ seenHead \in 1 .. Len(head')
    BY <1>3, <1>5, MaxItemsAssumption, Numbers
  <2>2. MemberTypes'
    BY <1>1, <1>5, <2>1 DEF IInv, TypeOK, MemberTypes
  <2>3. ThreadTypes' /\ ViewTypes'
    BY <1>1, <1>2, <2>1, MaxItemsAssumption
    DEF IInv, TypeOK, ThreadTypes, ViewTypes, NoItem
  <2> QED
    BY <2>2, <2>3 DEF TypeOK
<1>7. IndexInv'
  <2>1. ASSUME NEW i \in 1 .. m + 1 PROVE head'[i] = tail[i]
    <3>1. i = m + 1 \/ i \in 1 .. m
      BY <1>3
    <3> QED
      BY <1>5, <3>1, IndexesAreSlots
  <2>2. m + 1 <= Len(tail)
    BY <1>3, Numbers
  <2> QED
    BY <1>1, <1>5, <2>1, <2>2 DEF IInv, IndexInv
<1>8. DistanceInv'
  <2>1. hcAt \in 1 .. m /\ head'[hcAt] = head[hcAt]
    BY <1>5, Numbers
  <2> QED
    BY <1>1, <1>2, <1>3, <1>5, <2>1 DEF IInv, DistanceInv
<1>9. ControlInv' /\ PeekInv'
  BY <1>1, <1>2, <1>3, <1>5 DEF IInv, ControlInv, PeekInv
<1>10. RaceInv'
  <2>1. \A x \in 1 .. m : x \in 1 .. m + 1
    BY <1>3
  <2> QED
    BY <1>1, <1>5, <2>1 DEF IInv, RaceInv
<1>11. DataInv'
  BY <1>1, <1>2 DEF IInv, DataInv
<1> QED
  BY <1>6, <1>7, <1>8, <1>9, <1>10, <1>11 DEF IInv

\* the call of size() or empty(),
LEMMA QueryCallInv ==
  ASSUME IInv, NEW t \in Threads, NEW o \in QueryOps, QueryCall(t, o)
  PROVE  IInv'
<1>1. /\ UNCHANGED <<head, tail, arr, wrote, readBy, got, peeked, tail_cache, tcAt,
                     seenTail, value, head_cache, hcAt, seenHead, loaded>>
      /\ op' = [op EXCEPT ![t] = o] /\ answer' = [answer EXCEPT ![t] = NoAnswer]
      /\ pc[t] = "idle"
  BY DEF QueryCall, Call, memVars, prodVars, consVars
<1>2. /\ pc' \in [Threads -> Labels] /\ pc'[t] = "load_head"
      /\ \A u \in Threads \ {t} : pc'[u] = pc[u]
  BY GotoFacts DEF QueryCall, Call, Labels, IInv
<1>3. TypeOK'
  <2>1. MemberTypes' /\ ViewTypes'
    BY <1>1 DEF IInv, TypeOK, MemberTypes, ViewTypes
  <2>2. ThreadTypes'
    BY <1>1, <1>2 DEF IInv, TypeOK, ThreadTypes
  <2> QED
    BY <2>1, <2>2 DEF TypeOK
<1>4. IndexInv' /\ RaceInv' /\ PeekInv'
  BY <1>1 DEF IInv, IndexInv, RaceInv, PeekInv
<1>5. DistanceInv' /\ ControlInv'
  BY <1>1, <1>2 DEF IInv, DistanceInv, ControlInv, Threads
<1>6. DataInv'
  BY <1>1, <1>2 DEF IInv, DataInv, Threads
<1> QED
  BY <1>3, <1>4, <1>5, <1>6 DEF IInv

\* its load of head,
LEMMA QueryHeadInv ==
  ASSUME IInv, NEW t \in Threads, NEW k \in 1 .. Len(head), QueryHead(t, k)
  PROVE  IInv'
<1>1. /\ UNCHANGED <<head, tail, arr, wrote, readBy, got, peeked, tail_cache, tcAt,
                     seenTail, value, head_cache, hcAt, answer, op>>
      /\ loaded' = [loaded EXCEPT ![t] = head[k]]
      /\ seenHead' = seenHead \/ (k \in seenHead .. Len(head) /\ seenHead' = k)
      /\ pc[t] = "load_head"
  BY DEF QueryHead, AfterLoad, memVars, consVars
<1>2. /\ pc' \in [Threads -> Labels] /\ pc'[t] = "load_tail"
      /\ \A u \in Threads \ {t} : pc'[u] = pc[u]
  BY GotoFacts DEF QueryHead, Labels, IInv
<1>3. TypeOK'
  <2>1. seenHead' \in 1 .. Len(head) /\ hcAt \in 1 .. seenHead'
    BY <1>1, Numbers
  <2>2. MemberTypes' /\ ViewTypes'
    BY <1>1, <2>1 DEF IInv, TypeOK, MemberTypes, ViewTypes
  <2>3. ThreadTypes'
    BY <1>1, <1>2, IndexesAreSlots DEF IInv, TypeOK, ThreadTypes
  <2> QED
    BY <2>2, <2>3 DEF TypeOK
<1>4. IndexInv' /\ RaceInv' /\ PeekInv'
  BY <1>1 DEF IInv, IndexInv, RaceInv, PeekInv
<1>5. DistanceInv' /\ ControlInv'
  BY <1>1, <1>2 DEF IInv, DistanceInv, ControlInv, Threads
<1>6. DataInv'
  BY <1>1, <1>2 DEF IInv, DataInv, Threads
<1> QED
  BY <1>3, <1>4, <1>5, <1>6 DEF IInv

\* and of tail.
LEMMA QueryTailInv ==
  ASSUME IInv, NEW t \in Threads, NEW k \in 1 .. Len(tail), QueryTail(t, k)
  PROVE  IInv'
<1> DEFINE r == IF op[t] = "size" THEN SizeOf(loaded[t], tail[k])
                ELSE IF EmptyOf(loaded[t], tail[k]) THEN 1 ELSE 0
<1>1. /\ UNCHANGED <<head, tail, arr, wrote, readBy, got, peeked, tail_cache, tcAt,
                     value, head_cache, hcAt, seenHead, loaded, op>>
      /\ answer' = [answer EXCEPT ![t] = r]
      /\ seenTail' = seenTail \/ (k \in seenTail .. Len(tail) /\ seenTail' = k)
      /\ pc[t] = "load_tail"
  BY DEF QueryTail, AfterLoad, memVars, prodVars
<1>2. /\ pc' \in [Threads -> Labels] /\ pc'[t] = "idle"
      /\ \A u \in Threads \ {t} : pc'[u] = pc[u]
  BY GotoFacts DEF QueryTail, Labels, IInv
<1>3. r \in Slots
  <2>1. loaded[t] \in Slots /\ tail[k] \in Slots
    BY IndexesAreSlots DEF IInv, TypeOK, ThreadTypes
  <2>2. 0 \in Slots /\ 1 \in Slots
    BY BufferSize, CapacityAssumption
  <2> QED
    BY <2>1, <2>2, SizeOfInRange
<1>4. TypeOK'
  <2>1. seenTail' \in 1 .. Len(tail) /\ tcAt \in 1 .. seenTail'
    BY <1>1, Numbers
  <2>2. MemberTypes' /\ ViewTypes'
    BY <1>1, <2>1 DEF IInv, TypeOK, MemberTypes, ViewTypes
  <2>3. ThreadTypes'
    BY <1>1, <1>2, <1>3 DEF IInv, TypeOK, ThreadTypes
  <2> QED
    BY <2>2, <2>3 DEF TypeOK
<1>5. IndexInv' /\ RaceInv' /\ PeekInv'
  BY <1>1 DEF IInv, IndexInv, RaceInv, PeekInv
<1>6. DistanceInv' /\ ControlInv'
  BY <1>1, <1>2 DEF IInv, DistanceInv, ControlInv, Threads
<1>7. DataInv'
  BY <1>1, <1>2 DEF IInv, DataInv, Threads
<1> QED
  BY <1>4, <1>5, <1>6, <1>7 DEF IInv

\* So every step keeps it.
LEMMA NextInv == IInv /\ [Next]_vars => IInv'
<1> SUFFICES ASSUME IInv, [Next]_vars PROVE IInv'
  OBVIOUS
<1>1. CASE NewCall
  BY <1>1, PushCallInv, PopCallInv, QueryCallInv DEF NewCall
<1>2. CASE PushStep
  BY <1>2, PushCheckInv, PushReloadInv, PushWriteInv, PushThrowInv, PushPublishInv
  DEF PushStep
<1>3. CASE PopStep
  BY <1>3, PopCheckInv, PopReloadInv, PeekReadInv, PopReadInv, PopThrowInv,
     PopReleaseInv DEF PopStep
<1>4. CASE \E t \in Threads : QueryStep(t)
  BY <1>4, QueryHeadInv, QueryTailInv DEF QueryStep
<1>5. CASE UNCHANGED vars
  BY <1>5 DEF vars, memVars, prodVars, consVars, queryVars, IInv, TypeOK, MemberTypes,
     ThreadTypes, ViewTypes, IndexInv, DistanceInv, ControlInv, RaceInv, DataInv, PeekInv
<1> QED
  BY <1>1, <1>2, <1>3, <1>4, <1>5 DEF Next

\* In every behaviour of the ring the invariant holds.
THEOREM Invariant == Spec => []IInv
<1>1. Init => IInv
  BY InitInv
<1>2. IInv /\ [Next]_vars => IInv'
  BY NextInv
<1> QED
  BY <1>1, <1>2, PTL DEF Spec
------------------------------------------------------------------------------
(* The theorems. *)

\* The members, the threads and their views have the values TypeOK gives them:
\* no index ever leaves the ring, no counter its range.
THEOREM TypeCorrect == Spec => []TypeOK
<1>1. IInv => TypeOK
  BY DEF IInv
<1> QED
  BY <1>1, Invariant, PTL

\* impl.hpp 13-15 and 112-115: the acquire/release pairs on head and tail order
\* every access to a slot after the accesses of the other thread.
THEOREM RaceFreedom == Spec => []NoDataRace
<1>1. ASSUME IInv PROVE NoDataRace
  <2>1. ASSUME pc["P"] = "write" PROVE readBy[Newest(tail)] <= seenHead
    <3> DEFINE n == Len(tail)
    <3> DEFINE d == readBy[tail[n]]
    <3>1. n \in 1 .. n /\ tail[n] \in Slots /\ n - hcAt < Capacity /\ n \in Nat
      BY <1>1, <2>1, Numbers, IndexesAreSlots DEF IInv, DistanceInv
    <3>2. CASE d = 1
      BY <1>1, <3>2, Numbers DEF Newest
    <3>3. CASE d # 1
      <4>1. d - 1 \in 1 .. Len(head) /\ tail[d - 1] = tail[n] /\ d - 1 < tcAt
        BY <1>1, <3>1, <3>3 DEF IInv, RaceInv
      <4>2. d \in Nat
        BY <1>1, <3>1, MaxItemsAssumption DEF IInv, TypeOK, MemberTypes
      <4>3. d - 1 \in 1 .. n /\ d - 1 < n
        BY <1>1, <4>1, <4>2, Numbers
      <4>4. ~(n - (d - 1) <= Capacity)
        BY <1>1, <3>1, <4>1, <4>3, DistinctSlots DEF IInv
      <4>5. d <= seenHead
        BY <1>1, <3>1, <4>2, <4>4, Numbers, CapacityAssumption
      <4> QED
        BY <4>5 DEF Newest
    <3> QED
      BY <3>2, <3>3
  <2>2. ASSUME pc["C"] = "read" PROVE wrote[Newest(head)] <= seenTail
    <3> DEFINE m == Len(head)
    <3> DEFINE d == wrote[tail[m]]
    <3>1. m < tcAt /\ m \in 1 .. Len(head) /\ head[m] = tail[m] /\ tail[m] \in Slots
      BY <1>1, <2>2, AtRead, Numbers, IndexesAreSlots
    <3>2. CASE d = 1
      BY <1>1, <3>1, <3>2, Numbers DEF Newest
    <3>3. CASE d # 1
      <4>1. d - 1 \in 1 .. Len(tail) /\ tail[d - 1] = tail[m]
        BY <1>1, <3>1, <3>3 DEF IInv, RaceInv
      <4>2. d \in Nat
        BY <1>1, <3>1, MaxItemsAssumption, SMTT(20) DEF IInv, TypeOK, MemberTypes
      <4>3. ~(d - 1 > m)
        <5>1. ASSUME d - 1 > m PROVE FALSE
          <6>1. m \in m .. Len(tail) /\ d - 1 \in m .. Len(tail) /\ d - 1 # m
            BY <1>1, <4>1, <4>2, <5>1, Numbers
          <6> QED
            BY <1>1, <4>1, <6>1, RingSlots
        <5> QED
          BY <5>1
      <4>4. d <= seenTail
        BY <1>1, <3>1, <4>2, <4>3, Numbers
      <4> QED
        BY <3>1, <4>4 DEF Newest
    <3> QED
      BY <3>2, <3>3
  <2> QED
    BY <2>1, <2>2 DEF NoDataRace
<1> QED
  BY <1>1, Invariant, PTL

\* defs.hpp 16-18: the ring never holds more than Capacity items.
THEOREM CapacityBound == Spec => []WithinCapacity
<1>1. ASSUME IInv PROVE WithinCapacity
  <2>1. Len(tail) - Len(head) \in 0 .. Capacity
    BY <1>1, Numbers, CapacityAssumption
  <2>2. pc["P"] \in {"write", "publish"} => Len(tail) - hcAt < Capacity
    BY <1>1 DEF IInv, DistanceInv
  <2> QED
    BY <1>1, <2>1, <2>2, Numbers, CapacityAssumption DEF WithinCapacity
<1> QED
  BY <1>1, Invariant, PTL

\* The n-th pop returns what the n-th push stored.
THEOREM FifoOrder == Spec => []FifoDelivery
<1>1. IInv => FifoDelivery
  BY DEF IInv, DataInv, FifoDelivery
<1> QED
  BY <1>1, Invariant, PTL

\* impl.hpp 29-31: a push that gives up has found Capacity items in the ring.
THEOREM TrulyFull == Spec => FullIsTrue
<1>1. ASSUME IInv, Next, pc["P"] = "reload", pc'["P"] = "idle"
      PROVE  Len(tail) - seenHead' = Capacity
  <2>1. PICK k \in 1 .. Len(head) : PushReload(k)
    <3>1. pc["P"] # pc'["P"] /\ pc \in [Threads -> Labels]
      BY <1>1 DEF IInv, TypeOK, ThreadTypes
    <3> QED
      BY <1>1, <3>1 DEF Next, NewCall, PushStep, PopStep, QueryStep, Threads, PushCall,
         PopCall, QueryCall, Call, Goto, PushCheck, PushWrite, PushThrow, PushPublish,
         PopCheck, PopReload, PeekRead, PopRead, PopThrow, PopRelease, QueryHead, QueryTail
  <2>2. pc' = [pc EXCEPT !["P"] = IF IsFullAt(head[k])
                THEN IF op["P"] = "wait_and_push" THEN "check" ELSE "idle" ELSE "write"]
        /\ seenHead' = k /\ k \in seenHead .. Len(head)
    BY <2>1 DEF PushReload, AfterLoad, Goto
  <2>3. IsFullAt(head[k])
    BY <1>1, <2>2 DEF IInv, TypeOK, ThreadTypes, Threads
  <2>4. Len(tail) - k <= Capacity
    BY <1>1, <2>2, Numbers, CapacityAssumption
  <2> QED
    BY <1>1, <2>2, <2>3, <2>4, FullIff DEF IInv
<1>2. IInv /\ [Next]_vars =>
        [pc["P"] = "reload" /\ pc'["P"] = "idle" => Len(tail) - seenHead' = Capacity]_vars
  BY <1>1
<1> QED
  BY <1>2, Invariant, PTL DEF Spec, FullIsTrue

\* impl.hpp 123-125: a pop or peek that gives up has consumed all it knows of.
THEOREM TrulyEmpty == Spec => EmptyIsTrue
<1>1. ASSUME IInv, Next, pc["C"] = "reload", pc'["C"] = "idle"
      PROVE  seenTail' = Len(head)
  <2>1. PICK k \in 1 .. Len(tail) : PopReload(k)
    <3>1. pc["C"] # pc'["C"] /\ pc \in [Threads -> Labels]
      BY <1>1 DEF IInv, TypeOK, ThreadTypes
    <3> QED
      BY <1>1, <3>1 DEF Next, NewCall, PushStep, PopStep, QueryStep, Threads, PushCall,
         PopCall, QueryCall, Call, Goto, PushCheck, PushReload, PushWrite, PushThrow,
         PushPublish, PopCheck, PeekRead, PopRead, PopThrow, PopRelease, QueryHead, QueryTail
  <2>2. pc' = [pc EXCEPT !["C"] = IF ~IsEmptyAt(tail[k]) THEN "read"
                ELSE IF op["C"] = "wait_and_pop" THEN "check" ELSE "idle"]
        /\ seenTail' = k /\ k \in seenTail .. Len(tail)
    BY <2>1 DEF PopReload, AfterLoad, Goto
  <2>3. IsEmptyAt(tail[k])
    BY <1>1, <2>2 DEF IInv, TypeOK, ThreadTypes, Threads
  <2>4. k \in Len(head) .. Len(tail) /\ Len(tail) - Len(head) <= Capacity
    BY <1>1, <2>2, Numbers
  <2> QED
    BY <1>1, <2>2, <2>3, <2>4, EmptyIff DEF IInv
<1>2. IInv /\ [Next]_vars =>
        [pc["C"] = "reload" /\ pc'["C"] = "idle" => seenTail' = Len(head)]_vars
  BY <1>1
<1> QED
  BY <1>2, Invariant, PTL DEF Spec, EmptyIsTrue

\* Both answers, "full" and "empty", are true of the newest index the caller knows.
THEOREM TrueAnswers == Spec => AnswersAreTrue
BY TrulyFull, TrulyEmpty DEF AnswersAreTrue

\* A call that moves to a label with fewer steps left.
LEMMA Nearer ==
  ASSUME IInv, NEW t \in Threads, NEW l \in Labels, Goto(t, l), StepsLeft(l) < StepsLeft(pc[t])
  PROVE  \A u \in Threads : pc'[u] # pc[u] => StepsLeft(pc'[u]) < StepsLeft(pc[u])
BY GotoFacts DEF IInv

\* impl.hpp 9, 42, 108: bounded steps for every call but a wait, at any capacity and
\* however the threads interleave; a wait goes round again only if it has to.
THEOREM CallsAreWaitFree == Spec => WaitFree
<1> DEFINE Near(u)   == StepsLeft(pc'[u]) < StepsLeft(pc[u])
           Around(u) == /\ pc'[u] = "check" /\ op[u] \in {"wait_and_push", "wait_and_pop"}
                        /\ IF u = "P" THEN Len(tail) - seenHead' = Capacity
                                      ELSE seenTail' = Len(head)
           Good == \A t \in Threads : pc[t] # "idle" /\ pc'[t] # pc[t] =>
                     \/ Near(t)
                     \/ Around(t)
<1>1. ASSUME IInv, NEW k \in 1 .. Len(head), PushReload(k) PROVE Good
  <2>1. /\ pc["P"] = "reload" /\ seenHead' = k /\ k \in seenHead .. Len(head)
        /\ Goto("P", IF ~IsFullAt(head[k]) THEN "write"
                     ELSE IF op["P"] = "wait_and_push" THEN "check" ELSE "idle")
    BY <1>1 DEF PushReload, AfterLoad
  <2>2. CASE ~IsFullAt(head[k])
    BY <1>1, <2>1, <2>2, Nearer DEF Threads, Labels, StepsLeft
  <2>3. CASE IsFullAt(head[k]) /\ op["P"] # "wait_and_push"
    BY <1>1, <2>1, <2>3, Nearer DEF Threads, Labels, StepsLeft
  <2>4. CASE IsFullAt(head[k]) /\ op["P"] = "wait_and_push"
    <3>1. Goto("P", "check")
      BY <2>1, <2>4
    <3>2. pc'["P"] = "check" /\ \A u \in Threads \ {"P"} : pc'[u] = pc[u]
      BY <1>1, <3>1, GotoFacts DEF IInv, Threads, Labels
    <3>3. Len(tail) - k = Capacity
      <4>1. k \in seenHead .. Len(head)
        BY <2>1
      <4>2. Len(tail) - k <= Capacity
        BY <1>1, <4>1, Numbers, CapacityAssumption
      <4> QED
        BY <1>1, <2>4, <4>2, FullIff DEF IInv
    <3> QED
      BY <2>1, <2>4, <3>2, <3>3
  <2> QED
    BY <2>2, <2>3, <2>4
<1>2. ASSUME IInv, NEW k \in 1 .. Len(tail), PopReload(k) PROVE Good
  <2>1. /\ pc["C"] = "reload" /\ seenTail' = k /\ k \in seenTail .. Len(tail)
        /\ Goto("C", IF ~IsEmptyAt(tail[k]) THEN "read"
                     ELSE IF op["C"] = "wait_and_pop" THEN "check" ELSE "idle")
    BY <1>2 DEF PopReload, AfterLoad
  <2>2. CASE ~IsEmptyAt(tail[k])
    BY <1>2, <2>1, <2>2, Nearer DEF Threads, Labels, StepsLeft
  <2>3. CASE IsEmptyAt(tail[k]) /\ op["C"] # "wait_and_pop"
    BY <1>2, <2>1, <2>3, Nearer DEF Threads, Labels, StepsLeft
  <2>4. CASE IsEmptyAt(tail[k]) /\ op["C"] = "wait_and_pop"
    <3>1. Goto("C", "check")
      BY <2>1, <2>4
    <3>2. pc'["C"] = "check" /\ \A u \in Threads \ {"C"} : pc'[u] = pc[u]
      BY <1>2, <3>1, GotoFacts DEF IInv, Threads, Labels
    <3>3. k = Len(head)
      <4>1. k \in Len(head) .. Len(tail) /\ Len(tail) - Len(head) <= Capacity
        BY <1>2, <2>1, Numbers
      <4> QED
        BY <1>2, <2>4, <4>1, EmptyIff DEF IInv
    <3> QED
      BY <2>1, <2>4, <3>2, <3>3
  <2> QED
    BY <2>2, <2>3, <2>4
<1> USE DEF Threads, Labels, StepsLeft
<1>3. ASSUME IInv, PushCheck \/ PushWrite \/ PushThrow \/ PushPublish PROVE Good
  BY <1>3, Nearer DEF PushCheck, PushWrite, PushThrow, PushPublish
<1>4. ASSUME IInv, PopCheck \/ PeekRead \/ PopRead \/ PopThrow \/ PopRelease PROVE Good
  BY <1>4, Nearer DEF PopCheck, PeekRead, PopRead, PopThrow, PopRelease
<1>5. ASSUME IInv, NEW t \in Threads, QueryStep(t) PROVE Good
  <2>1. CASE pc[t] = "load_head" /\ Goto(t, "load_tail")
    BY <1>5, <2>1, Nearer
  <2>2. CASE pc[t] = "load_tail" /\ Goto(t, "idle")
    BY <1>5, <2>2, Nearer
  <2> QED
    BY <1>5, <2>1, <2>2 DEF QueryStep, QueryHead, QueryTail
<1>6. ASSUME IInv, NewCall PROVE Good
  <2>1. PICK t \in Threads, l \in Labels : pc[t] = "idle" /\ Goto(t, l)
    <3>1. \E t \in Threads : \E o : Call(t, o, "check") \/ Call(t, o, "load_head")
      BY <1>6 DEF NewCall, PushCall, PopCall, QueryCall
    <3> QED
      BY <3>1 DEF Call
  <2> QED
    BY <1>6, <2>1, GotoFacts DEF IInv
<1>7. IInv /\ [Next]_vars => [Good]_vars
  BY <1>1, <1>2, <1>3, <1>4, <1>5, <1>6 DEF Next, PushStep, PopStep
<1> QED
  BY <1>7, Invariant, PTL DEF Spec, WaitFree
------------------------------------------------------------------------------
(* The ring implements the FIFO queue.  By DataInv the queue of the         *)
(* refinement mapping holds the numbers of the pushes published and not yet *)
(* popped, so a step matters to it only by Len(tail) and got.               *)

Numbered(a, b) == [i \in 1 .. b - a |-> a + i]

Queue == [i \in 1 .. Len(tail) - 1 - Len(got) |-> arr[tail[Len(got) + i]]]

\* The queue is the numbers after Len(got) up to Len(tail) - 1.
Mapped == /\ Queue = Numbered(Len(got), Len(tail) - 1)
          /\ Len(got) \in Nat /\ Len(tail) - 1 \in Nat /\ Len(got) <= Len(tail) - 1

\* A sequence of consecutive numbers is told by its ends.
LEMMA NumberedFacts ==
  ASSUME NEW a \in Nat, NEW b \in Nat, a <= b
  PROVE  /\ Numbered(a, b) \in Seq(Nat)
         /\ Len(Numbered(a, b)) = b - a
         /\ Append(Numbered(a, b), b + 1) = Numbered(a, b + 1)
         /\ a < b => /\ Numbered(a, b) # << >>
                     /\ Head(Numbered(a, b)) = a + 1
                     /\ Tail(Numbered(a, b)) = Numbered(a + 1, b)
<1> DEFINE s == Numbered(a, b)
<1>1. s \in Seq(Nat) /\ Len(s) = b - a
  BY DEF Numbered
<1>2. Append(s, b + 1) = Numbered(a, b + 1)
  <2>1. Append(s, b + 1) \in Seq(Nat) /\ Numbered(a, b + 1) \in Seq(Nat)
    BY <1>1 DEF Numbered
  <2>2. Len(Append(s, b + 1)) = b + 1 - a /\ Len(Numbered(a, b + 1)) = b + 1 - a
    BY <1>1 DEF Numbered
  <2>3. ASSUME NEW i \in 1 .. b + 1 - a PROVE Append(s, b + 1)[i] = Numbered(a, b + 1)[i]
    <3>1. CASE i = b + 1 - a
      BY <1>1, <3>1, AppendFacts DEF Numbered
    <3>2. CASE i # b + 1 - a
      BY <1>1, <3>2, AppendFacts DEF Numbered
    <3> QED
      BY <3>1, <3>2
  <2> QED
    BY <2>1, <2>2, <2>3, SeqEqual
<1>3. ASSUME a < b
      PROVE  s # << >> /\ Head(s) = a + 1 /\ Tail(s) = Numbered(a + 1, b)
  <2>1. s # << >> /\ Head(s) = a + 1
    BY <1>1, <1>3 DEF Numbered
  <2>2. Tail(s) \in Seq(Nat) /\ Len(Tail(s)) = b - a - 1
        /\ \A i \in 1 .. Len(Tail(s)) : Tail(s)[i] = s[i + 1]
    BY <1>1, <2>1, HeadTailProperties
  <2>3. Numbered(a + 1, b) \in Seq(Nat) /\ Len(Numbered(a + 1, b)) = b - a - 1
    BY <1>3 DEF Numbered
  <2>4. ASSUME NEW i \in 1 .. b - a - 1 PROVE Tail(s)[i] = Numbered(a + 1, b)[i]
    BY <2>2, <1>3 DEF Numbered
  <2> QED
    BY <2>1, <2>2, <2>3, <2>4, SeqEqual
<1> QED
  BY <1>1, <1>2, <1>3

\* The ring's contents are the numbers of the items not popped yet.
LEMMA QueueIsNumbered ==
  ASSUME IInv
  PROVE  Mapped
<1>1. Len(got) <= Len(tail) - 1
  <2>1. pc["C"] = "release" => Len(head) < tcAt
    BY DEF IInv, DistanceInv
  <2> QED
    BY <2>1, Numbers DEF IInv, ControlInv
<1>2. \A i \in 1 .. Len(tail) - 1 - Len(got) : arr[tail[Len(got) + i]] = Len(got) + i
  BY <1>1, Numbers DEF IInv, DataInv
<1>3. 1 .. Len(tail) - 1 - Len(got) = 1 .. (Len(tail) - 1) - Len(got)
  OBVIOUS
<1>4. Queue = Numbered(Len(got), Len(tail) - 1)
  BY <1>2, <1>3 DEF Queue, Numbered
<1> QED
  BY <1>1, <1>4, Numbers DEF Mapped

\* All steps but the store to tail and the read of a pop leave the contents
\* alone.
LEMMA QuietSteps ==
  ASSUME Next
  PROVE  PushPublish \/ PopRead \/ (UNCHANGED <<tail, got>>)
<1>1. CASE NewCall
  BY <1>1 DEF NewCall, PushCall, PopCall, QueryCall, memVars, consVars
<1>2. CASE PushStep
  BY <1>2 DEF PushStep, PushCheck, PushReload, PushWrite, PushThrow, memVars, consVars
<1>3. CASE PopStep
  BY <1>3 DEF PopStep, PopCheck, PopReload, PeekRead, PopThrow, PopRelease, memVars, consVars
<1>4. CASE \E t \in Threads : QueryStep(t)
  BY <1>4 DEF QueryStep, QueryHead, QueryTail, memVars, consVars
<1> QED
  BY <1>1, <1>2, <1>3, <1>4 DEF Next

\* The ring, for every Capacity and whatever the caches and the two threads
\* do, is a FIFO queue of at most Capacity items.
THEOREM RingIsFifo == Spec => RefinesFifo
<1>1. Init => Fifo!Init
  <2> SUFFICES ASSUME Init PROVE Fifo!Init
    OBVIOUS
  <2>1. Queue = << >> /\ got = << >>
    BY DEF Init, Queue
  <2> QED
    BY <2>1 DEF Fifo!Init, Queue
<1>2. ASSUME IInv, Mapped, Mapped', [Next]_vars PROVE [Fifo!Next]_Fifo!fifoVars
  <2>1. PICK a \in Nat, b \in Nat : /\ a = Len(got) /\ b = Len(tail) - 1
                                    /\ Queue = Numbered(a, b) /\ a <= b
    BY <1>2 DEF Mapped
  <2>2. CASE UNCHANGED <<tail, got>>
    <3>1. Queue' = Queue
      BY <1>2, <2>1, <2>2 DEF Mapped
    <3> QED
      BY <2>2, <3>1 DEF Fifo!fifoVars, Queue
  <2>3. CASE PushPublish
    <3>1. /\ tail' = Append(tail, NextIdx(Newest(tail))) /\ UNCHANGED got
          /\ pc["P"] = "publish"
      BY <2>3 DEF PushPublish, consVars
    <3>2. Len(tail') - 1 = b + 1 /\ Len(got') = a
      BY <1>2, <2>1, <3>1, Numbers, AppendFacts, IndexesAreSlots, NextIdxWraps
      DEF IInv, TypeOK, MemberTypes, Newest
    <3>3. b + 1 \in 1 .. MaxItems /\ b - a < Capacity
      <4>1. Len(tail) - hcAt < Capacity /\ Len(tail) <= MaxItems
        BY <1>2, <3>1 DEF IInv, DistanceInv, ControlInv
      <4> QED
        BY <1>2, <2>1, <4>1, Numbers, CapacityAssumption, MaxItemsAssumption
    <3>4. Queue' = Append(Queue, b + 1) /\ Len(Queue) < Capacity
      <4>1. Queue' = Numbered(a, b + 1)
        BY <1>2, <3>2 DEF Mapped
      <4> QED
        BY <2>1, <3>3, <4>1, NumberedFacts
    <3>5. Fifo!Push(b + 1)
      BY <3>1, <3>4 DEF Fifo!Push, Queue
    <3> QED
      BY <3>3, <3>5 DEF Fifo!Next
  <2>4. CASE PopRead
    <3>1. /\ got' = Append(got, arr[Newest(head)]) /\ UNCHANGED tail
          /\ pc["C"] = "read"
      BY <2>4 DEF PopRead
    <3>2. arr[Newest(head)] = a + 1 /\ a < b
      BY <1>2, <2>1, <3>1, AtRead, Numbers DEF Newest
    <3>3. Len(got') = a + 1 /\ Len(tail') - 1 = b
      BY <1>2, <2>1, <3>1, <3>2 DEF IInv, TypeOK, ThreadTypes
    <3>4. Queue # << >> /\ Queue' = Tail(Queue) /\ Head(Queue) = a + 1
      <4>1. Queue' = Numbered(a + 1, b)
        BY <1>2, <3>3 DEF Mapped
      <4> QED
        BY <2>1, <3>2, <4>1, NumberedFacts
    <3> QED
      BY <3>1, <3>2, <3>4 DEF Fifo!Next, Fifo!Pop, Queue
  <2>5. CASE UNCHANGED vars
    BY <2>2, <2>5 DEF vars, memVars, consVars
  <2> QED
    BY <1>2, <2>2, <2>3, <2>4, <2>5, QuietSteps
<1> QED
  <2>1. IInv => Mapped
    BY QueueIsNumbered
  <2> QED
    BY <1>1, <1>2, <2>1, Invariant, PTL DEF Spec, RefinesFifo, Fifo!Spec
------------------------------------------------------------------------------
(* What a peek and the answers of size() and empty() are worth. *)

\* impl.hpp 152-155: between a peek and the consumer's next pop nothing, of
\* either thread, takes the peeked element away or changes it.
THEOREM PeekStable == Spec => PeekHolds
<1> DEFINE Held == peeked # NoItem => /\ got' # got => got' = Append(got, peeked)
                                      /\ peeked' \in {peeked, NoItem}
                                      /\ ~(pc["C"] = "reload" /\ pc'["C"] = "idle")
<1>1. ASSUME IInv, Next, peeked # NoItem
      PROVE  /\ got' # got => got' = Append(got, peeked)
             /\ peeked' \in {peeked, NoItem}
             /\ ~(pc["C"] = "reload" /\ pc'["C"] = "idle")
  <2>1. peeked = Len(head) /\ Len(head) < tcAt
    BY <1>1 DEF IInv, PeekInv
  <2>2. pc["C"] # "reload"
    BY <1>1, <2>1, Numbers DEF IInv, DistanceInv
  <2>3. pc["C"] = "read" => arr[Newest(head)] = peeked
    BY <1>1, <2>1, AtRead DEF Newest
  <2>4. CASE NewCall
    BY <2>2, <2>4 DEF NewCall, PushCall, PopCall, QueryCall, memVars, consVars
  <2>5. CASE PushStep
    BY <2>2, <2>5 DEF PushStep, PushCheck, PushReload, PushWrite, PushThrow, PushPublish,
     memVars, consVars
  <2>6. CASE PopStep
    BY <2>2, <2>3, <2>6
    DEF PopStep, PopCheck, PopReload, PeekRead, PopRead, PopThrow, PopRelease,
        memVars, consVars
  <2>7. CASE \E t \in Threads : QueryStep(t)
    BY <2>2, <2>7 DEF QueryStep, QueryHead, QueryTail, memVars, consVars
  <2> QED
    BY <1>1, <2>2, <2>4, <2>5, <2>6, <2>7 DEF Next
<1>2. IInv /\ [Next]_vars => [Held]_vars
  BY <1>1
<1> QED
  BY <1>2, Invariant, PTL DEF Spec, PeekHolds

\* Between its two loads, the head index a query holds is the newest store the
\* producer knows of, or the consumer's own last store.
QueryInv ==
  /\ pc["P"] = "load_tail" => loaded["P"] = head[seenHead]
  /\ pc["C"] = "load_tail" => loaded["C"] = head[Len(head)]
  /\ \A t \in Threads : pc[t] \in {"load_head", "load_tail"} => op[t] \in QueryOps

\* Every step keeps what a query under way has loaded.
LEMMA QueryInvNext ==
  ASSUME IInv, QueryInv, [Next]_vars
  PROVE  QueryInv'
<1>1. /\ pc \in [Threads -> Labels] /\ loaded \in [Threads -> Slots]
      /\ head \in Seq(Slots) /\ seenHead \in 1 .. Len(head)
      /\ DOMAIN op = Threads
  BY DEF IInv, TypeOK, MemberTypes, ThreadTypes, ViewTypes
<1> USE <1>1 DEF QueryInv, Threads
<1>2. ASSUME NEW o \in PushOps, PushCall(o) PROVE QueryInv'
  BY <1>2 DEF PushCall, Call, Goto, memVars, consVars, queryVars
<1>3. ASSUME NEW o \in PopOps, PopCall(o) PROVE QueryInv'
  BY <1>3 DEF PopCall, Call, Goto, memVars, prodVars, queryVars
<1>4. ASSUME NEW t \in Threads, NEW o \in QueryOps, QueryCall(t, o) PROVE QueryInv'
  BY <1>4 DEF QueryCall, Call, Goto, memVars, prodVars, consVars
<1>5. CASE PushStep
  BY <1>5 DEF PushStep, PushCheck, PushReload, PushWrite, PushThrow, PushPublish, Goto,
     memVars, prodVars, consVars, queryVars
<1>6. ASSUME PopStep PROVE QueryInv'
  <2>1. CASE PopRelease
    <3>1. /\ head' = Append(head, NextIdx(Newest(head)))
          /\ pc' = [pc EXCEPT !["C"] = "idle"]
          /\ UNCHANGED <<loaded, op, seenHead>>
      BY <2>1 DEF PopRelease, Goto, prodVars, queryVars
    <3>2. head'[seenHead] = head[seenHead]
      <4>1. Newest(head) \in Slots
        BY Numbers, IndexesAreSlots DEF Newest
      <4> QED
        BY <3>1, <4>1, NextIdxWraps, AppendFacts
    <3> QED
      BY <3>1, <3>2
  <2>2. CASE PopCheck \/ (\E k \in 1 .. Len(tail) : PopReload(k)) \/ PeekRead \/ PopRead
        \/ PopThrow
    BY <2>2 DEF PopCheck, PopReload, PeekRead, PopRead, PopThrow, Goto, memVars, prodVars,
       consVars, queryVars
  <2> QED
    BY <1>6, <2>1, <2>2 DEF PopStep
<1>7. ASSUME NEW t \in Threads, NEW k \in 1 .. Len(head), QueryHead(t, k) PROVE QueryInv'
  <2>1. /\ UNCHANGED <<head, op>>
        /\ pc' = [pc EXCEPT ![t] = "load_tail"] /\ pc[t] = "load_head"
        /\ loaded' = [loaded EXCEPT ![t] = head[k]]
    BY <1>7 DEF QueryHead, Goto, memVars
  <2>2. t = "P" => seenHead' = k
    BY <1>7 DEF QueryHead, AfterLoad
  <2>3. t = "C" => k = Len(head) /\ seenHead' = seenHead
    BY <1>7 DEF QueryHead
  <2> QED
    BY <2>1, <2>2, <2>3
<1>8. ASSUME NEW t \in Threads, NEW k \in 1 .. Len(tail), QueryTail(t, k) PROVE QueryInv'
  BY <1>8 DEF QueryTail, Goto, memVars, prodVars
<1>9. CASE UNCHANGED vars
  BY <1>9 DEF vars, memVars, prodVars, consVars, queryVars
<1> QED
  BY <1>2, <1>3, <1>4, <1>5, <1>6, <1>7, <1>8, <1>9 DEF Next, NewCall, QueryStep

\* size() of two indexes that are at most Capacity stores apart is the number
\* of stores between them, in size_t arithmetic.
LEMMA SizeIsDistance ==
  ASSUME IInv, NEW i \in 1 .. Len(tail), NEW j \in 1 .. Len(tail),
         i <= j, j - i <= Capacity
  PROVE  SizeOf(tail[i], tail[j]) = j - i
<1>1. tail[i] \in 0 .. Capacity /\ j - i \in 0 .. Capacity
  BY IndexesAreSlots, Numbers, BufferSize
<1>2. tail[j] = SlotAfter(tail[i], j - i)
  BY <1>1, Numbers, CapacityAssumption DEF IInv, IndexInv, buffer_size
<1>3. PICK x \in 0 .. Capacity, y \in 0 .. Capacity, d \in 0 .. Capacity :
        x = tail[i] /\ y = tail[j] /\ d = j - i /\ y = SlotAfter(x, d)
  BY <1>1, <1>2, CapacityAssumption DEF SlotAfter, buffer_size
<1> DEFINE w == (y - x) % WordSize
<1>4. /\ buffer_size = Capacity + 1 /\ buffer_size \in Nat /\ buffer_size > 1
      /\ WordSize \in Nat /\ WordSize >= 2 * buffer_size /\ Capacity \in Nat
  BY CapacityAssumption, WordSizeAssumption DEF buffer_size
<1>5. y - x = d \/ (y - x = d - buffer_size /\ d - buffer_size < 0)
  BY <1>3, <1>4 DEF SlotAfter
<1>6. CASE y - x = d
  <2>1. w = d
    BY <1>4, <1>6, Remainder
  <2>2. (w + buffer_size) % WordSize = d + buffer_size
    BY <1>4, <2>1, Remainder
  <2>3. (d + buffer_size) % buffer_size = d
    BY <1>4, Remainder
  <2> QED
    BY <1>3, <2>2, <2>3 DEF SizeOf
<1>7. CASE y - x = d - buffer_size /\ d - buffer_size < 0
  <2>1. w = d - buffer_size + WordSize
    BY <1>4, <1>7, Remainder
  <2>2. (w + buffer_size) % WordSize = d
    BY <1>4, <2>1, Remainder
  <2>3. d % buffer_size = d
    BY <1>4, Remainder
  <2> QED
    BY <1>3, <2>2, <2>3 DEF SizeOf
<1> QED
  BY <1>5, <1>6, <1>7

\* defs.hpp 80: size() and empty() err on the safe side for the thread that
\* asks.
THEOREM ConservativeAnswers == Spec => QueryIsConservative
<1> DEFINE Answered ==
      \A t \in Threads : answer'[t] # answer[t] /\ answer'[t] # NoAnswer =>
        LET items  == Len(tail) - Len(head)
            known  == seenTail - Len(head)
            n      == answer'[t]
        IN CASE t = "P" /\ op[t] = "size"  -> n \in items .. Capacity
             [] t = "P" /\ op[t] = "empty" -> n = 1 => items = 0
             [] t = "C" /\ op[t] = "size"  -> n \in known .. items
             [] t = "C" /\ op[t] = "empty" -> /\ n = 1 => known = 0
                                              /\ n = 0 => items > 0
<1>1. ASSUME IInv, QueryInv, Next, NEW t \in Threads,
             answer'[t] # answer[t], answer'[t] # NoAnswer
      PROVE  \E k \in 1 .. Len(tail) : QueryTail(t, k)
  <2>1. answer \in [Threads -> Slots \cup {NoAnswer}]
    BY <1>1 DEF IInv, TypeOK, ThreadTypes
  <2>2. CASE NewCall
    BY <1>1, <2>1, <2>2 DEF NewCall, PushCall, PopCall, QueryCall, queryVars
  <2>3. CASE PushStep \/ PopStep
    BY <1>1, <2>3 DEF PushStep, PushCheck, PushReload, PushWrite, PushThrow, PushPublish,
       PopStep, PopCheck, PopReload, PeekRead, PopRead, PopThrow, PopRelease, queryVars
  <2>4. CASE \E u \in Threads : QueryStep(u)
    <3>1. PICK u \in Threads : QueryStep(u)
      BY <2>4
    <3>2. PICK k \in 1 .. Len(tail) : QueryTail(u, k)
      BY <1>1, <3>1 DEF QueryStep, QueryHead
    <3>3. u = t
      BY <1>1, <2>1, <3>2 DEF QueryTail
    <3> QED
      BY <3>2, <3>3
  <2> QED
    BY <1>1, <2>2, <2>3, <2>4 DEF Next
<1>2. ASSUME IInv, QueryInv, NEW t \in Threads, NEW k \in 1 .. Len(tail), QueryTail(t, k)
      PROVE  LET items  == Len(tail) - Len(head)
                 known  == seenTail - Len(head)
                 n      == answer'[t]
             IN CASE t = "P" /\ op[t] = "size"  -> n \in items .. Capacity
                  [] t = "P" /\ op[t] = "empty" -> n = 1 => items = 0
                  [] t = "C" /\ op[t] = "size"  -> n \in known .. items
                  [] t = "C" /\ op[t] = "empty" -> /\ n = 1 => known = 0
                                                   /\ n = 0 => items > 0
  <2> DEFINE h == IF t = "P" THEN seenHead ELSE Len(head)
  <2>1. answer'[t] = IF op[t] = "size" THEN SizeOf(loaded[t], tail[k])
                     ELSE IF EmptyOf(loaded[t], tail[k]) THEN 1 ELSE 0
    BY <1>2 DEF QueryTail, IInv, TypeOK, ThreadTypes
  <2>2. /\ pc[t] = "load_tail" /\ op[t] \in QueryOps
        /\ t = "P" => k = Len(tail)
        /\ t = "C" => k \in seenTail .. Len(tail)
    BY <1>2 DEF QueryTail, QueryInv
  <2>3. loaded[t] = tail[h] /\ h \in 1 .. Len(tail) /\ h <= k /\ k - h <= Capacity
    <3>1. h \in 1 .. Len(head) /\ loaded[t] = head[h]
      BY <1>2, <2>2, Numbers DEF QueryInv, Threads
    <3>2. h <= k /\ k - h <= Capacity
      BY <1>2, <2>2, Numbers, CapacityAssumption DEF Threads
    <3> QED
      BY <1>2, <3>1, <3>2, Numbers, IndexesAreSlots, SMTT(20)
  <2>4. SizeOf(loaded[t], tail[k]) = k - h
    BY <1>2, <2>3, SizeIsDistance
  <2>5. EmptyOf(loaded[t], tail[k]) <=> k = h
    <3>1. ASSUME k # h PROVE tail[h] # tail[k]
      BY <1>2, <2>3, <3>1, DistinctSlots, Numbers, SMTT(20) DEF IInv
    <3> QED
      BY <2>3, <3>1 DEF EmptyOf
  <2>6. CASE t = "P"
    <3>1. h = seenHead /\ k = Len(tail)
      BY <2>2, <2>6
    <3>2. Len(tail) - seenHead \in Len(tail) - Len(head) .. Capacity
      BY <1>2, Numbers, CapacityAssumption
    <3>3. Len(tail) = seenHead => Len(tail) - Len(head) = 0
      BY <1>2, Numbers
    <3> QED
      <4>1. CASE op[t] = "size"
        <5>1. answer'[t] \in Len(tail) - Len(head) .. Capacity
          BY <2>1, <2>4, <3>1, <3>2, <4>1
        <5> QED
          BY <2>6, <4>1, <5>1
      <4>2. CASE op[t] = "empty"
        <5>1. answer'[t] = 1 => Len(tail) - Len(head) = 0
          BY <2>1, <2>5, <3>1, <3>3, <4>2
        <5> QED
          BY <2>6, <4>2, <5>1
      <4> QED
        BY <2>2, <4>1, <4>2 DEF QueryOps
  <2>7. CASE t = "C"
    <3>1. h = Len(head) /\ k \in seenTail .. Len(tail)
      BY <2>2, <2>7
    <3>2. /\ k - h \in seenTail - Len(head) .. Len(tail) - Len(head)
          /\ k = h => seenTail - Len(head) = 0
          /\ k # h => Len(tail) - Len(head) > 0
      BY <1>2, <3>1, Numbers
    <3> QED
      <4>1. CASE op[t] = "size"
        <5>1. answer'[t] \in seenTail - Len(head) .. Len(tail) - Len(head)
          BY <2>1, <2>4, <3>2, <4>1
        <5> QED
          BY <2>7, <4>1, <5>1
      <4>2. CASE op[t] = "empty"
        <5>1. /\ answer'[t] = 1 => seenTail - Len(head) = 0
              /\ answer'[t] = 0 => Len(tail) - Len(head) > 0
          BY <2>1, <2>5, <3>2, <4>2
        <5> QED
          BY <2>7, <4>2, <5>1
      <4> QED
        BY <2>2, <4>1, <4>2 DEF QueryOps
  <2> QED
    BY <2>6, <2>7 DEF Threads
<1>3. IInv /\ QueryInv /\ [Next]_vars => [Answered]_vars
  BY <1>1, <1>2
<1>4. Init => QueryInv
  BY DEF Init, QueryInv, Threads
<1>5. IInv /\ QueryInv /\ [Next]_vars => QueryInv'
  BY QueryInvNext
<1> QED
  BY <1>3, <1>4, <1>5, Invariant, PTL DEF Spec, QueryIsConservative
------------------------------------------------------------------------------
(* What the slots hold that no item of the queue is in.  The slots with an  *)
(* item are those of the positions published but not yet popped.       *)

\* The last position whose slot holds its item.
Filled == IF pc["P"] = "publish" THEN Len(tail) ELSE Len(tail) - 1

SpareInv ==
  /\ \A s \in Slots : arr[s] > NoItem => \E n \in Len(got) + 1 .. Filled : tail[n] = s
  /\ \A s \in Slots : arr[s] = NoT => s = Newest(tail) /\ pc["P"] # "publish"

\* Every step keeps the slots without an item spare.
LEMMA SpareInvNext ==
  ASSUME IInv, SpareInv, [Next]_vars
  PROVE  SpareInv'
<1>1. /\ arr \in [Slots -> NoT .. MaxItems] /\ pc \in [Threads -> Labels]
      /\ tail[Len(tail)] \in Slots /\ Len(tail) \in Nat /\ Len(got) \in Nat
      /\ Len(got) <= Len(tail)
  <2>1. /\ arr \in [Slots -> NoT .. MaxItems] /\ pc \in [Threads -> Labels]
    BY DEF IInv, TypeOK, MemberTypes, ThreadTypes
  <2> QED
    BY <2>1, Numbers, IndexesAreSlots
<1>2. ASSUME UNCHANGED <<arr, tail, got>>, pc'["P"] = "publish" <=> pc["P"] = "publish"
      PROVE  SpareInv'
  BY <1>2 DEF SpareInv, Filled, Newest
<1>3. CASE NewCall
  <2>1. UNCHANGED <<arr, tail, got>> /\ (pc'["P"] = "publish" <=> pc["P"] = "publish")
    BY <1>1, <1>3 DEF NewCall, PushCall, PopCall, QueryCall, Call, Goto, memVars, consVars,
       Threads
  <2> QED
    BY <1>2, <2>1
<1>4. CASE PushCheck \/ \E k \in 1 .. Len(head) : PushReload(k)
  <2>1. UNCHANGED <<arr, tail, got>> /\ (pc'["P"] = "publish" <=> pc["P"] = "publish")
    BY <1>1, <1>4 DEF PushCheck, PushReload, Goto, memVars, consVars, Threads
  <2> QED
    BY <1>2, <2>1
<1>5. CASE PushWrite
  <2>1. /\ arr' = [arr EXCEPT ![tail[Len(tail)]] = value] /\ UNCHANGED <<tail, got>>
        /\ pc["P"] = "write" /\ pc' = [pc EXCEPT !["P"] = "publish"] /\ value = Len(tail)
    BY <1>5 DEF PushWrite, Newest, Goto, consVars, IInv, DataInv
  <2>2. Filled' = Len(tail) /\ Filled = Len(tail) - 1
    BY <1>1, <2>1 DEF Filled, Threads
  <2>3. value > NoItem
    BY <2>1, Numbers DEF NoItem
  <2>4. ASSUME NEW s \in Slots, s # tail[Len(tail)]
        PROVE  /\ arr'[s] # NoT
               /\ arr'[s] > NoItem => \E n \in Len(got) + 1 .. Filled' : tail[n] = s
    <3>1. arr'[s] = arr[s]
      BY <1>1, <2>1, <2>4
    <3>2. Len(got) + 1 .. Filled \subseteq Len(got) + 1 .. Filled'
      BY <1>1, <2>2
    <3> QED
      BY <2>4, <3>1, <3>2 DEF SpareInv, Newest
  <2>5. arr'[tail[Len(tail)]] # NoT
    BY <1>1, <2>1, <2>3 DEF NoT, NoItem
  <2>6. Len(tail) \in Len(got) + 1 .. Filled'
    BY <1>1, <2>2, QueueIsNumbered DEF Mapped
  <2> QED
    BY <2>1, <2>4, <2>5, <2>6 DEF SpareInv
<1>6. CASE PushThrow
  <2>1. /\ UNCHANGED <<tail, got>> /\ pc["P"] = "write" /\ pc' = [pc EXCEPT !["P"] = "idle"]
        /\ \E x \in {NoT, arr[tail[Len(tail)]]} : arr' = [arr EXCEPT ![tail[Len(tail)]] = x]
    BY <1>6 DEF PushThrow, Newest, Goto, consVars
  <2>2. Filled' = Filled /\ pc'["P"] = "idle"
    BY <1>1, <2>1 DEF Filled, Threads
  <2>3. ASSUME NEW s \in Slots
        PROVE  arr'[s] = arr[s] \/ (arr'[s] = NoT /\ s = tail[Len(tail)])
    BY <1>1, <2>1
  <2> QED
    BY <2>1, <2>2, <2>3 DEF SpareInv, Newest, NoT, NoItem
<1>7. CASE PushPublish
  <2>1. /\ tail' = Append(tail, NextIdx(tail[Len(tail)])) /\ UNCHANGED <<arr, got>>
        /\ pc["P"] = "publish" /\ pc' = [pc EXCEPT !["P"] = "idle"]
    BY <1>7 DEF PushPublish, Newest, Goto, consVars
  <2>2. /\ Len(tail') = Len(tail) + 1 /\ \A i \in 1 .. Len(tail) : tail'[i] = tail[i]
    BY <1>1, <2>1, NextIdxWraps, AppendFacts DEF IInv, TypeOK, MemberTypes
  <2>3. Filled' = Len(tail) /\ Filled = Len(tail)
    BY <1>1, <2>1, <2>2 DEF Filled, Threads
  <2>4. \A n \in Len(got) + 1 .. Len(tail) : tail'[n] = tail[n]
    BY <1>1, <2>2
  <2> QED
    BY <2>1, <2>3, <2>4 DEF SpareInv
<1>8. CASE PopRead
  <2> DEFINE m == Len(head)
  <2>1. /\ arr' = [arr EXCEPT ![head[m]] = NoItem] /\ UNCHANGED <<tail, head>>
        /\ got' = Append(got, arr[head[m]]) /\ pc["C"] = "read"
        /\ pc' = [pc EXCEPT !["C"] = "release"]
    BY <1>8 DEF PopRead, Newest, Goto
  <2>2. /\ Len(got) = m - 1 /\ head[m] = tail[m] /\ head[m] \in Slots /\ m \in Nat
        /\ Len(got') = m
    BY <1>1, <2>1, AtRead, Numbers, SMTT(20) DEF IInv, TypeOK, ThreadTypes
  <2>3. Filled' = Filled /\ (pc'["P"] = "publish" <=> pc["P"] = "publish")
    BY <1>1, <2>1 DEF Filled, Threads
  <2>4. ASSUME NEW s \in Slots, s # head[m]
        PROVE  arr'[s] = arr[s]
    BY <1>1, <2>1, <2>4
  <2>5. ASSUME NEW s \in Slots, arr'[s] > NoItem
        PROVE  \E n \in Len(got') + 1 .. Filled' : tail'[n] = s
    <3>1. s # head[m]
      BY <1>1, <2>1, <2>2, <2>5 DEF NoItem
    <3>2. PICK n \in Len(got) + 1 .. Filled : tail[n] = s
      BY <2>4, <2>5, <3>1 DEF SpareInv
    <3>3. n # m
      BY <2>2, <3>1, <3>2
    <3>4. n \in Len(got') + 1 .. Filled
      BY <1>1, <2>2, <3>2, <3>3 DEF Filled
    <3> QED
      BY <2>1, <2>3, <3>2, <3>4
  <2>6. ASSUME NEW s \in Slots, arr'[s] = NoT
        PROVE  s = Newest(tail') /\ pc'["P"] # "publish"
    <3>1. s # head[m]
      BY <1>1, <2>1, <2>2, <2>6 DEF NoItem, NoT
    <3> QED
      BY <2>1, <2>3, <2>4, <2>6, <3>1 DEF SpareInv, Newest
  <2> QED
    BY <2>5, <2>6 DEF SpareInv
<1>9. CASE PopCheck \/ (\E k \in 1 .. Len(tail) : PopReload(k)) \/ PeekRead \/ PopThrow
           \/ PopRelease
  <2>1. UNCHANGED <<arr, tail, got>> /\ (pc'["P"] = "publish" <=> pc["P"] = "publish")
    BY <1>1, <1>9 DEF PopCheck, PopReload, PeekRead, PopThrow, PopRelease, Goto, memVars,
       consVars, Threads
  <2> QED
    BY <1>2, <2>1
<1>10. CASE \E t \in Threads : QueryStep(t)
  <2>1. UNCHANGED <<arr, tail, got>> /\ (pc'["P"] = "publish" <=> pc["P"] = "publish")
    BY <1>1, <1>10 DEF QueryStep, QueryHead, QueryTail, Goto, memVars, consVars, Threads
  <2> QED
    BY <1>2, <2>1
<1>11. CASE UNCHANGED vars
  BY <1>2, <1>11 DEF vars, memVars, consVars
<1> QED
  BY <1>3, <1>4, <1>5, <1>6, <1>7, <1>8, <1>9, <1>10, <1>11 DEF Next, PushStep, PopStep

\* impl.hpp 98-100: what a push finds in its slot, and so what construct_at
\* buries alive, is a default-constructed or moved-from T, never an item.
THEOREM SpareSlot == Spec => []NextSlotIsSpare
<1>1. Init => SpareInv
  BY DEF Init, SpareInv, NoItem, NoT
<1>2. IInv /\ SpareInv /\ [Next]_vars => SpareInv'
  BY SpareInvNext
<1>3. ASSUME IInv, SpareInv PROVE NextSlotIsSpare
  <2>1. ASSUME pc["P"] = "write" PROVE arr[Newest(tail)] \in {NoItem, NoT}
    <3>1. arr[Newest(tail)] \in NoT .. MaxItems /\ Newest(tail) \in Slots
      <4>1. arr \in [Slots -> NoT .. MaxItems]
        BY <1>3 DEF IInv, TypeOK, MemberTypes
      <4> QED
        BY <1>3, <4>1, Numbers, IndexesAreSlots DEF Newest
    <3>2. ASSUME arr[Newest(tail)] > NoItem PROVE FALSE
      <4>1. PICK n \in Len(got) + 1 .. Len(tail) - 1 : tail[n] = Newest(tail)
        <5>1. Filled = Len(tail) - 1
          BY <2>1 DEF Filled
        <5> QED
          BY <1>3, <3>1, <3>2, <5>1 DEF SpareInv
      <4>2. n \in Len(head) .. Len(tail) /\ Len(tail) \in Len(head) .. Len(tail)
            /\ n # Len(tail)
        BY <1>3, Numbers
      <4> QED
        BY <1>3, <4>1, <4>2, RingSlots DEF Newest
    <3> QED
      BY <3>1, <3>2, MaxItemsAssumption DEF NoT, NoItem
  <2> QED
    BY <1>3, <2>1 DEF SpareInv, NextSlotIsSpare
<1> QED
  BY <1>1, <1>2, <1>3, Invariant, PTL DEF Spec

\* defs.hpp 16-18, impl.hpp 98-100: a push has room, and what it writes over is no item.
THEOREM NothingIsOverwritten == Spec => []NothingOverwritten
<1>1. WithinCapacity /\ NextSlotIsSpare => NothingOverwritten
  BY DEF NothingOverwritten
<1> QED
  BY <1>1, CapacityBound, SpareSlot, PTL
=============================================================================
