-------------------- MODULE BlockingMpmcUnboundedProofs --------------------
(***************************************************************************)
(* Proofs about BlockingMpmcUnbounded, for every finite set of threads,    *)
(* every set of addresses and any number of pushes.                        *)
(*                                                                         *)
(* As in LockfreeSpscUnboundedProofs a node is known by its serial: no two *)
(* nodes share one, next counts them up from head to the dummy (ChainInv), *)
(* a node in the list is never free and a detached node has one owner      *)
(* (LiveInv, OwnInv).  What is special here is that any number of threads  *)
(* is at work: the mutexes say who may be where (MutexInv), and positions  *)
(* in entered, not pointers, tell the items apart (CountInv, GotInv).      *)
(*                                                                         *)
(* The last two sections are about progress: steps run out (Stage, Ahead), *)
(* and only the gap between a predicate and the blocking behind it can     *)
(* lose a wakeup (WakeInv).                                                *)
(***************************************************************************)
EXTENDS BlockingMpmcUnbounded, FiniteSetTheorems, FunctionTheorems, SequenceTheorems, TLAPS

(* The list, seen through the serials of its nodes. *)

Ser(a) == nodes[a].serial
Nxt(a) == nodes[a].next
Dat(a) == nodes[a].data

Pushed == Len(entered)
Popped == Len(taken)

PushLabels     == {"alloc", "lock_tail", "fill", "advance"}
TailLabels     == {"fill", "advance"}
HeadLabels     == {"get_tail", "block", "unlink", "walk"}
DetachedLabels == {"lock_tail", "fill", "read"}

Gone      == \E t \in Threads : pc[t] = "destroy"
Advancing == \E t \in Threads : pc[t] = "advance"

\* The serials of the oldest node that has not been destroyed, and of the newest.
First == IF head = None THEN Pushed + 2 ELSE Ser(head)
Last  == IF Advancing THEN Pushed + 2 ELSE Pushed + 1

\* Who holds which mutex, and what the owner of head_mutex knows.
MutexInv ==
  /\ \A t \in Threads : pc[t] \in TailLabels <=> tail_mutex = t
  /\ \A t \in Threads : pc[t] \in HeadLabels <=> head_mutex = t
  /\ \A t \in Threads : pc[t] = "unlink" => Popped < Pushed
  /\ \A t \in Threads : pc[t] = "walk" => op[t] = "size"
  /\ Gone => \A t \in Threads : pc[t] = "destroy"

\* A producer numbers its items by how many of them are in the queue.
CountInv ==
  /\ Pushed + Cardinality(Pushing) <= MaxItems
  /\ \A i \in 1 .. Pushed : entered[i] \in Producers \X (1 .. MaxItems)
  /\ \A p \in Producers : \A i \in 1 .. Pushed :
       entered[i][1] = p => entered[i][2] <= CountOf(p)
  /\ \A i, j \in 1 .. Pushed :
       i < j /\ entered[i][1] = entered[j][1] => entered[i][2] < entered[j][2]
  /\ \A t \in Pushing : t \in Producers /\ value[t] = <<t, CountOf(t) + 1>>

\* Serials are handed out once, without a gap, and next counts them up.
ChainInv ==
  /\ \A a \in Addr : Ser(a) <= Last
  /\ \A a, b \in Addr : Ser(a) = Ser(b) /\ Ser(a) >= 1 => a = b
  /\ \A k \in First .. Last : \E a \in Addr : Ser(a) = k
  /\ \A a \in Addr : Ser(a) >= First =>
       IF Ser(a) = Last THEN Nxt(a) = None
                        ELSE Nxt(a) \in Addr /\ Ser(Nxt(a)) = Ser(a) + 1
  /\ Ser(tail) = Pushed + 1
  /\ Popped <= Pushed /\ Popped + 1 <= First
  /\ ~Gone => head \in Addr /\ Ser(head) = Popped + 1

\* What is allocated: the nodes from head on, and those that a thread holds.
LiveInv ==
  /\ \A a \in Addr : Ser(a) >= First => a \in live
  /\ \A a \in live : Ser(a) >= First \/ a \in Detached

OwnInv ==
  /\ \A t \in Threads : pc[t] \in {"lock_tail", "fill"} =>
       own[t] \in live /\ Ser(own[t]) = 0 /\ Nxt(own[t]) = None
  /\ \A t \in Threads : pc[t] = "advance" => own[t] = Nxt(tail) /\ Dat(tail) = value[t]
  /\ \A t \in Threads : pc[t] = "read" => own[t] \in live /\ Ser(own[t]) \in 1 .. Popped
  /\ \A t, u \in Threads :
       pc[t] \in DetachedLabels /\ pc[u] \in DetachedLabels /\ own[t] = own[u] => t = u

\* Every item is in the node of its serial until a pop has read it.
DataInv ==
  /\ \A a \in Addr : Ser(a) \in Popped + 1 .. Pushed => Dat(a) = entered[Ser(a)]
  /\ \A t \in Threads : pc[t] = "read" => Dat(own[t]) = entered[Ser(own[t])]
  /\ \A i \in 1 .. Popped : taken[i] = entered[i]

\* A consumer receives items in the order of their serials.
GotPopped ==
  /\ \A t \in Threads : \A n \in 1 .. Len(got[t]) : \E k \in n .. Popped : got[t][n] = entered[k]
  /\ \A x \in dropped : \E k \in 1 .. Popped : x = entered[k]

GotOrdered ==
  \A t \in Threads : \A j \in 1 .. Len(got[t]) : \A i \in 1 .. j - 1 : \A m, n \in 1 .. Popped :
    got[t][i] = entered[m] /\ got[t][j] = entered[n] => m < n

GotBeforeRead ==
  \A t \in Threads : pc[t] = "read" =>
    /\ Ser(own[t]) > Len(got[t])
    /\ \A i \in 1 .. Len(got[t]) : \A m \in 1 .. Popped : got[t][i] = entered[m] => m < Ser(own[t])

GotInv == GotPopped /\ GotOrdered /\ GotBeforeRead

\* An item that has left the queue is in one place.
HolderInv ==
  \A i \in 1 .. Pushed : \A x \in {entered[i]} :
    IF i <= Popped THEN \E h : Holders(x) = {h} ELSE Holders(x) = {}

\* Where a walk of size() stands, and what it has counted.
WalkInv ==
  \A t \in Threads : pc[t] = "walk" =>
    /\ snap_tail[t] \in Addr /\ cur[t] \in Addr
    /\ Popped + 1 <= Ser(cur[t]) /\ Ser(cur[t]) <= Ser(snap_tail[t])
    /\ Ser(snap_tail[t]) <= Pushed + 1
    /\ count[t] = Ser(cur[t]) - Popped - 1

\* Nobody keeps a pointer to a node that is no longer its own.
KeepInv ==
  \A t \in Threads : pc[t] \notin {"lock_tail", "fill", "advance", "read"} => own[t] = None

ListInv == ChainInv /\ LiveInv /\ OwnInv /\ DataInv /\ GotInv /\ HolderInv

IInv == TypeOK /\ MutexInv /\ CountInv /\ ListInv /\ WalkInv /\ KeepInv
------------------------------------------------------------------------------
(* Types and mutexes. *)

\* The numbers in a state of the invariant.
LEMMA Numbers ==
  ASSUME IInv
  PROVE  /\ Pushed \in Nat /\ Popped \in Nat /\ Popped <= Pushed /\ Pushed <= MaxItems
         /\ MaxItems \in Nat \ {0} /\ First \in Nat /\ Last \in Nat /\ First >= Popped + 1
         /\ \A a \in Addr : /\ Ser(a) \in Nat /\ Ser(a) <= Last
                            /\ Nxt(a) \in Addr \cup {None} /\ Dat(a) \in Item
                            /\ nodes[a] \in [data : Item, next : Addr \cup {None},
                                             serial : 0 .. MaxItems + 1]
         /\ tail \in Addr /\ live \subseteq Addr /\ DOMAIN nodes = Addr
<1>1. Pushed \in Nat /\ Popped \in Nat
  BY DEF IInv, TypeOK, HistoryTypes, Pushed, Popped
<1>2. MaxItems \in Nat \ {0}
  BY ItemsAssumption
<1>3. Popped <= Pushed /\ First >= Popped + 1
  BY DEF IInv, ListInv, ChainInv
<1>4. Pushed <= MaxItems
  <2>1. IsFiniteSet(Pushing)
    BY ThreadsAssumption, FS_Subset DEF Pushing
  <2>2. Cardinality(Pushing) \in Nat
    BY <2>1, FS_CardinalityType
  <2> QED
    BY <1>1, <1>2, <2>2 DEF IInv, CountInv
<1>5. tail \in Addr /\ live \subseteq Addr /\ DOMAIN nodes = Addr
  BY DEF IInv, TypeOK, MemoryTypes
<1>6. ASSUME NEW a \in Addr
      PROVE  nodes[a] \in [data : Item, next : Addr \cup {None}, serial : 0 .. MaxItems + 1]
  BY DEF IInv, TypeOK, MemoryTypes
<1>7. ASSUME NEW a \in Addr
      PROVE  Ser(a) \in Nat /\ Nxt(a) \in Addr \cup {None} /\ Dat(a) \in Item
  BY <1>2, <1>6 DEF Ser, Nxt, Dat
<1>8. Last \in Nat
  BY <1>1 DEF Last
<1>9. First \in Nat
  <2>1. head \in Addr \cup {None}
    BY DEF IInv, TypeOK, MemoryTypes
  <2> QED
    BY <1>1, <1>7, <2>1 DEF First
<1>10. \A a \in Addr : Ser(a) <= Last
  BY DEF IInv, ListInv, ChainInv
<1> QED
  BY <1>1, <1>2, <1>3, <1>4, <1>5, <1>6, <1>7, <1>8, <1>9, <1>10

\* How many items of a producer there are, before and after an item enters.
LEMMA CountOfType ==
  ASSUME Pushed \in Nat, NEW p PROVE CountOf(p) \in 0 .. Pushed
<1> DEFINE S == {i \in 1 .. Len(entered) : entered[i][1] = p}
<1>1. IsFiniteSet(1 .. Pushed) /\ Cardinality(1 .. Pushed) = Pushed
  BY FS_Interval
<1>2. IsFiniteSet(S) /\ Cardinality(S) <= Pushed
  BY <1>1, FS_Subset DEF Pushed
<1>3. Cardinality(S) \in Nat
  BY <1>2, FS_CardinalityType
<1> QED
  BY <1>2, <1>3 DEF CountOf

\* While the queue exists, its ends are the same node just when it is empty.
LEMMA Ends ==
  ASSUME IInv, ~Gone
  PROVE  /\ head \in Addr /\ Ser(head) = Popped + 1 /\ Ser(tail) = Pushed + 1
         /\ head # None /\ First = Popped + 1
         /\ head # tail => Popped < Pushed
         /\ head = tail => Popped = Pushed
<1>1. head \in Addr /\ Ser(head) = Popped + 1 /\ Ser(tail) = Pushed + 1
  BY DEF IInv, ListInv, ChainInv
<1>2. head # None /\ First = Popped + 1
  BY <1>1, NoneAssumption DEF First
<1>3. head # tail => Ser(head) # Ser(tail)
  BY <1>1, Numbers DEF IInv, ListInv, ChainInv
<1> QED
  BY <1>1, <1>2, <1>3, Numbers

\* Nobody is inside a call once the destructor runs.
LEMMA AtWork ==
  ASSUME IInv, NEW t \in Threads, pc[t] # "destroy" PROVE ~Gone
BY DEF IInv, MutexInv, Gone

\* A step in which one thread moves, and takes or leaves at most its own locks.
LEMMA OneMoves ==
  ASSUME IInv, NEW t \in Threads, NEW l \in Labels \ {"destroy"}, pc[t] # "destroy",
         pc' = [pc EXCEPT ![t] = l],
         l \in TailLabels <=> tail_mutex' = t,
         l \in HeadLabels <=> head_mutex' = t,
         \A u \in Threads \ {t} : /\ tail_mutex' = u <=> tail_mutex = u
                                  /\ head_mutex' = u <=> head_mutex = u
                                  /\ op'[u] = op[u],
         l = "unlink" => Popped < Pushed,
         l = "walk" => op'[t] = "size",
         Popped' = Popped \/ (pc[t] = "unlink" /\ Popped' \in Nat /\ l # "unlink"),
         Pushed' \in Nat, Pushed' >= Pushed
  PROVE  MutexInv'
<1>1. pc'[t] = l /\ \A u \in Threads \ {t} : pc'[u] = pc[u]
  BY DEF IInv, TypeOK, ThreadTypes
<1>2. ~Gone /\ ~Gone'
  BY <1>1, AtWork DEF Gone
<1>3. \A u \in Threads : pc'[u] \in TailLabels <=> tail_mutex' = u
  BY <1>1 DEF IInv, MutexInv
<1>4. \A u \in Threads : pc'[u] \in HeadLabels <=> head_mutex' = u
  BY <1>1 DEF IInv, MutexInv
<1>5. ASSUME NEW u \in Threads, pc'[u] = "unlink" PROVE Popped' < Pushed'
  <2>1. CASE u = t
    BY <1>1, <1>5, <2>1, Numbers
  <2>2. CASE u # t
    <3>1. pc[u] = "unlink"
      BY <1>1, <1>5, <2>2
    <3>2. pc[t] # "unlink"
      BY <2>2, <3>1 DEF IInv, MutexInv, HeadLabels
    <3> QED
      BY <3>1, <3>2, Numbers DEF IInv, MutexInv
  <2> QED
    BY <2>1, <2>2
<1>6. \A u \in Threads : pc'[u] = "walk" => op'[u] = "size"
  BY <1>1 DEF IInv, MutexInv
<1> QED
  BY <1>2, <1>3, <1>4, <1>5, <1>6 DEF MutexInv

\* A step that takes and leaves no lock.
LEMMA NoLockMoves ==
  ASSUME IInv, NEW t \in Threads, NEW l \in Labels \ {"destroy"}, pc[t] # "destroy",
         pc' = [pc EXCEPT ![t] = l],
         pc[t] \in TailLabels <=> l \in TailLabels,
         pc[t] \in HeadLabels <=> l \in HeadLabels,
         l = "unlink" => Popped < Pushed, l # "walk" \/ op'[t] = "size",
         \A u \in Threads \ {t} : op'[u] = op[u],
         UNCHANGED <<lockVars, entered, taken>>
  PROVE  MutexInv'
<1>1. l \in TailLabels <=> tail_mutex' = t
  BY DEF IInv, MutexInv, lockVars
<1>2. l \in HeadLabels <=> head_mutex' = t
  BY DEF IInv, MutexInv, lockVars
<1>3. Popped' = Popped /\ Pushed' = Pushed /\ Pushed \in Nat
  BY Numbers DEF Popped, Pushed
<1>4. \A u \in Threads \ {t} : /\ tail_mutex' = u <=> tail_mutex = u
                               /\ head_mutex' = u <=> head_mutex = u
                               /\ op'[u] = op[u]
  BY DEF lockVars
<1>5. Pushed' \in Nat /\ Pushed' >= Pushed
  BY <1>3
<1>6. l = "walk" => op'[t] = "size"
  OBVIOUS
<1> QED
  BY <1>1, <1>2, <1>3, <1>4, <1>5, <1>6, OneMoves

\* op changes like pc, or not at all.
LEMMA OpOf ==
  ASSUME IInv, NEW t \in Threads, NEW o, op' = [op EXCEPT ![t] = o]
  PROVE  op'[t] = o /\ \A u \in Threads \ {t} : op'[u] = op[u]
BY DEF IInv, TypeOK, ThreadTypes

\* A new call of an idle thread.
LEMMA CallMoves ==
  ASSUME IInv, NEW t \in Threads, NEW o, NEW l \in {"alloc", "lock_head"}, Call(t, o, l),
         UNCHANGED <<lockVars, entered, taken>>
  PROVE  MutexInv'
<1>1. pc[t] = "idle" /\ pc' = [pc EXCEPT ![t] = l] /\ op' = [op EXCEPT ![t] = o]
  BY DEF Call, Goto
<1>2. \A u \in Threads \ {t} : op'[u] = op[u]
  BY <1>1, OpOf
<1>3. /\ l \in Labels \ {"destroy"} /\ pc[t] # "destroy" /\ l # "unlink" /\ l # "walk"
      /\ l \notin TailLabels /\ pc[t] \notin TailLabels
      /\ l \notin HeadLabels /\ pc[t] \notin HeadLabels
  BY <1>1 DEF Labels, TailLabels, HeadLabels
<1> QED
  BY <1>1, <1>2, <1>3, NoLockMoves

\* The steps of push.
LEMMA PushMoves == ASSUME IInv, NEW t \in Threads, PushStep(t) PROVE MutexInv'
<1> USE DEF Labels, TailLabels, HeadLabels
<1>1. ASSUME NEW a \in Addr, PushAlloc(t, a) PROVE MutexInv'
  BY <1>1, NoLockMoves DEF PushAlloc, Goto, histVars
<1>2. CASE PushThrow(t)
  <2>1. /\ pc[t] = "alloc" /\ pc' = [pc EXCEPT ![t] = "idle"] /\ op' = [op EXCEPT ![t] = "none"]
        /\ UNCHANGED <<lockVars, entered, taken>>
    BY <1>2 DEF PushThrow, Return, Goto, histVars
  <2>2. \A u \in Threads \ {t} : op'[u] = op[u]
    BY <2>1, OpOf
  <2> QED
    BY <2>1, <2>2, NoLockMoves
<1>3. CASE PushLock(t)
  <2>1. /\ pc[t] = "lock_tail" /\ tail_mutex = None /\ tail_mutex' = t /\ head_mutex' = head_mutex
        /\ pc' = [pc EXCEPT ![t] = "fill"] /\ op' = op /\ Popped' = Popped /\ Pushed' = Pushed
    BY <1>3 DEF PushLock, Goto, histVars, Pushed, Popped
  <2>2. /\ head_mutex # t
        /\ \A u \in Threads : tail_mutex # u
    BY <2>1, NoneAssumption DEF IInv, MutexInv
  <2>3. \A u \in Threads \ {t} : /\ tail_mutex' = u <=> tail_mutex = u
                                 /\ head_mutex' = u <=> head_mutex = u
                                 /\ op'[u] = op[u]
    BY <2>1, <2>2
  <2>4. Pushed' \in Nat /\ Pushed' >= Pushed
    BY <2>1, Numbers
  <2>5. ("fill" \in TailLabels <=> tail_mutex' = t) /\ ("fill" \in HeadLabels <=> head_mutex' = t)
    BY <2>1, <2>2
  <2> QED
    BY <2>1, <2>3, <2>4, <2>5, OneMoves
<1>4. CASE PushFill(t)
  BY <1>4, NoLockMoves DEF PushFill, Goto, histVars
<1>5. CASE PushAdvance(t)
  <2>1. /\ pc[t] = "advance" /\ tail_mutex' = None /\ head_mutex' = head_mutex
        /\ pc' = [pc EXCEPT ![t] = "notify"] /\ op' = op /\ Popped' = Popped
        /\ entered' = Append(entered, value[t])
    BY <1>5 DEF PushAdvance, Goto, Popped
  <2>2. Pushed \in Nat /\ Pushed' = Pushed + 1
    BY <2>1 DEF IInv, TypeOK, HistoryTypes, Pushed
  <2>3. /\ head_mutex # t /\ tail_mutex = t
        /\ \A u \in Threads : tail_mutex' # u
    BY <2>1, NoneAssumption DEF IInv, MutexInv
  <2>4. \A u \in Threads \ {t} : /\ tail_mutex' = u <=> tail_mutex = u
                                 /\ head_mutex' = u <=> head_mutex = u
                                 /\ op'[u] = op[u]
    BY <2>1, <2>3
  <2>5. Pushed' \in Nat /\ Pushed' >= Pushed
    BY <2>2
  <2>6. ("notify" \in TailLabels <=> tail_mutex' = t)
        /\ ("notify" \in HeadLabels <=> head_mutex' = t)
    BY <2>1, <2>3
  <2> QED
    BY <2>1, <2>4, <2>5, <2>6, OneMoves
<1>6. CASE PushNotify(t)
  <2>1. CASE Waiters = {}
    <3>1. /\ pc[t] = "notify" /\ pc' = [pc EXCEPT ![t] = "idle"] /\ op' = [op EXCEPT ![t] = "none"]
          /\ UNCHANGED <<lockVars, entered, taken>>
      BY <1>6, <2>1 DEF PushNotify, Goto, histVars
    <3>2. \A u \in Threads \ {t} : op'[u] = op[u]
      BY <3>1, OpOf
    <3> QED
      BY <3>1, <3>2, NoLockMoves
  <2>2. CASE Waiters # {}
    <3>1. PICK w \in Waiters : pc' = [pc EXCEPT ![t] = "idle", ![w] = "lock_head"]
      BY <1>6, <2>2 DEF PushNotify
    <3>2. /\ pc[t] = "notify" /\ op' = [op EXCEPT ![t] = "none"]
          /\ UNCHANGED <<lockVars, entered, taken>>
      BY <1>6 DEF PushNotify, histVars
    <3>3. /\ w \in Threads /\ pc[w] = "waiting" /\ pc'[t] = "idle" /\ pc'[w] = "lock_head"
          /\ \A u \in Threads \ {t, w} : pc'[u] = pc[u]
          /\ \A u \in Threads \ {t} : op'[u] = op[u]
      BY <3>1, <3>2 DEF Waiters, IInv, TypeOK, ThreadTypes
    <3>4. ~Gone /\ ~Gone'
      BY <3>2, <3>3, AtWork DEF Gone
    <3>5. tail_mutex' = tail_mutex /\ head_mutex' = head_mutex /\ Pushed' = Pushed /\ Popped' = Popped
      BY <3>2 DEF lockVars, Pushed, Popped
    <3> QED
      BY <3>2, <3>3, <3>4, <3>5 DEF IInv, MutexInv
  <2> QED
    BY <2>1, <2>2
<1> QED
  BY <1>1, <1>2, <1>3, <1>4, <1>5, <1>6 DEF PushStep

\* A step that gives head_mutex back, and may take the first item with it.
LEMMA HeadReleased ==
  ASSUME IInv, NEW t \in Threads, NEW l \in Labels \ {"destroy"},
         pc[t] \in HeadLabels, l \notin HeadLabels, l \notin TailLabels,
         pc' = [pc EXCEPT ![t] = l], head_mutex' = None, tail_mutex' = tail_mutex,
         \A u \in Threads \ {t} : op'[u] = op[u],
         Popped' = Popped \/ (pc[t] = "unlink" /\ Popped' \in Nat), entered' = entered
  PROVE  MutexInv'
<1>1. pc[t] # "destroy" /\ pc[t] \notin TailLabels /\ l # "unlink" /\ l # "walk"
  BY DEF HeadLabels, TailLabels
<1>2. head_mutex = t /\ tail_mutex # t /\ None \notin Threads
  BY <1>1, NoneAssumption DEF IInv, MutexInv
<1>3. \A u \in Threads \ {t} : /\ tail_mutex' = u <=> tail_mutex = u
                               /\ head_mutex' = u <=> head_mutex = u
                               /\ op'[u] = op[u]
  BY <1>2
<1>4. Pushed' \in Nat /\ Pushed' >= Pushed
  BY Numbers DEF Pushed
<1>5. (l \in TailLabels <=> tail_mutex' = t) /\ (l \in HeadLabels <=> head_mutex' = t)
  BY <1>2
<1> QED
  BY <1>1, <1>3, <1>4, <1>5, OneMoves

\* A thread that takes head_mutex.
LEMMA HeadTaken == ASSUME IInv, NEW t \in Threads, LockHead(t) PROVE MutexInv'
<1> USE DEF Labels, TailLabels, HeadLabels
<1>1. /\ pc[t] = "lock_head" /\ head_mutex = None /\ head_mutex' = t /\ tail_mutex' = tail_mutex
      /\ pc' = [pc EXCEPT ![t] = "get_tail"] /\ op' = op /\ Popped' = Popped /\ entered' = entered
  BY DEF LockHead, Goto, histVars, Popped
<1>2. tail_mutex # t /\ None \notin Threads
  BY <1>1, NoneAssumption DEF IInv, MutexInv
<1>3. \A u \in Threads \ {t} : /\ tail_mutex' = u <=> tail_mutex = u
                               /\ head_mutex' = u <=> head_mutex = u
                               /\ op'[u] = op[u]
  BY <1>1, <1>2
<1>4. Pushed' \in Nat /\ Pushed' >= Pushed
  BY <1>1, Numbers DEF Pushed
<1>5. ("get_tail" \in TailLabels <=> tail_mutex' = t)
      /\ ("get_tail" \in HeadLabels <=> head_mutex' = t)
  BY <1>1, <1>2
<1> QED
  BY <1>1, <1>3, <1>4, <1>5, OneMoves

\* The steps of wait_and_pop and try_pop under and after the lock.
LEMMA PopMoves == ASSUME IInv, NEW t \in Threads, PopStep(t) PROVE MutexInv'
<1> USE DEF Labels, TailLabels, HeadLabels
<1>1. CASE WaitCheck(t)
  <2>1. /\ pc[t] = "get_tail" /\ pc' = [pc EXCEPT ![t] = IF head # tail THEN "unlink" ELSE "block"]
        /\ op' = op /\ UNCHANGED <<lockVars, entered, taken>>
    BY <1>1 DEF WaitCheck, Goto, histVars
  <2>2. head # tail => Popped < Pushed
    BY <2>1, AtWork, Ends
  <2>3. CASE head # tail
    BY <2>1, <2>2, <2>3, NoLockMoves
  <2>4. CASE head = tail
    BY <2>1, <2>4, NoLockMoves
  <2> QED
    BY <2>3, <2>4
<1>2. CASE WaitBlock(t)
  BY <1>2, HeadReleased DEF WaitBlock, Goto, histVars, Popped
<1>3. CASE TryCheck(t)
  <2>1. CASE head # tail
    <3>1. /\ pc[t] = "get_tail" /\ pc' = [pc EXCEPT ![t] = "unlink"]
          /\ op' = op /\ UNCHANGED <<lockVars, entered, taken>>
      BY <1>3, <2>1 DEF TryCheck, Goto, histVars, lockVars
    <3>2. Popped < Pushed
      BY <2>1, <3>1, AtWork, Ends
    <3> QED
      BY <3>1, <3>2, NoLockMoves
  <2>2. CASE head = tail
    <3>1. /\ pc[t] = "get_tail" /\ pc' = [pc EXCEPT ![t] = "idle"]
          /\ op' = [op EXCEPT ![t] = "none"] /\ head_mutex' = None /\ tail_mutex' = tail_mutex
          /\ Popped' = Popped /\ entered' = entered
      BY <1>3, <2>2 DEF TryCheck, Return, Goto, histVars, Popped
    <3>2. \A u \in Threads \ {t} : op'[u] = op[u]
      BY <3>1, OpOf
    <3> QED
      BY <3>1, <3>2, HeadReleased
  <2> QED
    BY <2>1, <2>2
<1>4. CASE PopUnlink(t)
  <2>1. /\ pc[t] = "unlink" /\ pc' = [pc EXCEPT ![t] = "read"] /\ op' = op
        /\ head_mutex' = None /\ tail_mutex' = tail_mutex /\ entered' = entered
        /\ taken' = Append(taken, nodes[head].data)
    BY <1>4 DEF PopUnlink, Goto
  <2>2. Popped' \in Nat
    BY <2>1 DEF IInv, TypeOK, HistoryTypes, Popped
  <2> QED
    BY <2>1, <2>2, HeadReleased
<1>5. CASE PopRead(t) \/ PopThrow(t)
  <2>1. /\ pc[t] = "read" /\ pc' = [pc EXCEPT ![t] = "idle"] /\ op' = [op EXCEPT ![t] = "none"]
        /\ UNCHANGED <<lockVars, entered, taken>>
    BY <1>5 DEF PopRead, PopThrow, Return, Goto
  <2>2. \A u \in Threads \ {t} : op'[u] = op[u]
    BY <2>1, OpOf
  <2> QED
    BY <2>1, <2>2, NoLockMoves
<1> QED
  BY <1>1, <1>2, <1>3, <1>4, <1>5 DEF PopStep

\* The steps of size() and empty().
LEMMA QueryMoves == ASSUME IInv, NEW t \in Threads, QueryStep(t) PROVE MutexInv'
<1> USE DEF Labels, TailLabels, HeadLabels
<1>1. CASE EmptyCheck(t) \/ SizeReturn(t)
  <2>1. /\ pc[t] \in {"get_tail", "walk"} /\ pc' = [pc EXCEPT ![t] = "idle"]
        /\ op' = [op EXCEPT ![t] = "none"] /\ head_mutex' = None /\ tail_mutex' = tail_mutex
        /\ Popped' = Popped /\ entered' = entered
    BY <1>1 DEF EmptyCheck, SizeReturn, Return, Goto, histVars, Popped
  <2>2. \A u \in Threads \ {t} : op'[u] = op[u]
    BY <2>1, OpOf
  <2> QED
    BY <2>1, <2>2, HeadReleased
<1>2. CASE SizeSnap(t)
  BY <1>2, NoLockMoves DEF SizeSnap, Goto, histVars
<1>3. CASE SizeWalk(t)
  BY <1>3 DEF SizeWalk, histVars, lockVars, IInv, MutexInv, Gone, Popped, Pushed
<1> QED
  BY <1>1, <1>2, <1>3 DEF QueryStep

\* Every step keeps the mutexes in order.
LEMMA MutexHolds == ASSUME IInv, [Next]_vars PROVE MutexInv'
<1>1. ASSUME NEW t \in Producers, PushCall(t) PROVE MutexInv'
  BY <1>1, CallMoves DEF PushCall, histVars, Threads
<1>2. ASSUME NEW t \in Consumers, NEW o \in PopOps, PopCall(t, o) PROVE MutexInv'
  BY <1>2, CallMoves DEF PopCall, histVars, Threads
<1>3. ASSUME NEW t \in Observers, NEW o \in QueryOps, QueryCall(t, o) PROVE MutexInv'
  BY <1>3, CallMoves DEF QueryCall, histVars, Threads
<1>4. CASE DtorCall
  <2>1. /\ \A t \in Threads : pc[t] = "idle" /\ pc'[t] = "destroy"
        /\ tail_mutex' = tail_mutex /\ head_mutex' = head_mutex
    BY <1>4 DEF DtorCall, lockVars
  <2> QED
    BY <2>1 DEF IInv, MutexInv, TailLabels, HeadLabels
<1>5. ASSUME NEW t \in Threads, WakeSpuriously(t) PROVE MutexInv'
  BY <1>5, NoLockMoves
     DEF WakeSpuriously, Goto, histVars, Labels, TailLabels, HeadLabels
<1>6. CASE DtorDelete
  BY <1>6 DEF DtorDelete, histVars, lockVars, IInv, MutexInv, Gone, Popped, Pushed
<1>7. CASE UNCHANGED vars
  BY <1>7 DEF vars, histVars, lockVars, IInv, MutexInv, Gone, Popped, Pushed
<1> QED
  BY <1>1, <1>2, <1>3, <1>4, <1>5, <1>6, <1>7, PushMoves, PopMoves, QueryMoves, HeadTaken
     DEF Next, NewCall, Step

------------------------------------------------------------------------------
(* The numbers of the items. *)

\* A thread that neither starts nor ends a push.
LEMMA PushingFrame ==
  ASSUME IInv, NEW t \in Threads, NEW l \in Labels, pc' = [pc EXCEPT ![t] = l],
         pc[t] \in PushLabels <=> l \in PushLabels
  PROVE  Pushing' = Pushing
<1>1. pc'[t] = l /\ \A u \in Threads \ {t} : pc'[u] = pc[u]
  BY DEF IInv, TypeOK, ThreadTypes
<1> QED
  BY <1>1 DEF Pushing, PushLabels

\* Only entered decides how many items of a producer there are.
LEMMA CountSame ==
  ASSUME entered' = entered PROVE Pushed' = Pushed /\ \A p : CountOf(p)' = CountOf(p)
BY DEF Pushed, CountOf

\* A step that changes neither who is pushing nor what.
LEMMA CountFrame ==
  ASSUME IInv, entered' = entered, Pushing' = Pushing, \A u \in Pushing : value'[u] = value[u]
  PROVE  CountInv'
<1>1. Pushed' = Pushed /\ \A p : CountOf(p)' = CountOf(p)
  BY CountSame
<1>2. \A u \in Pushing' : u \in Producers /\ value'[u] = <<u, CountOf(u)' + 1>>
  BY <1>1 DEF IInv, CountInv
<1> QED
  BY <1>1, <1>2 DEF IInv, CountInv

\* A push that starts, and one that fails.
LEMMA CountAfterCall == ASSUME IInv, NEW t \in Producers, PushCall(t) PROVE CountInv'
<1>1. /\ pc[t] = "idle" /\ pc' = [pc EXCEPT ![t] = "alloc"] /\ entered' = entered
      /\ value' = [value EXCEPT ![t] = <<t, CountOf(t) + 1>>]
      /\ Pushed + Cardinality(Pushing) < MaxItems
  BY DEF PushCall, Call, Goto, histVars, Pushed
<1>2. pc'[t] = "alloc" /\ \A u \in Threads \ {t} : pc'[u] = pc[u]
  BY <1>1 DEF IInv, TypeOK, ThreadTypes, Threads
<1>3. Pushing' = Pushing \cup {t} /\ t \notin Pushing
  BY <1>1, <1>2 DEF Pushing, Threads
<1>4. IsFiniteSet(Pushing)
  BY ThreadsAssumption, FS_Subset DEF Pushing
<1>5. Cardinality(Pushing') = Cardinality(Pushing) + 1 /\ Cardinality(Pushing) \in Nat
  BY <1>3, <1>4, FS_AddElement, FS_CardinalityType
<1>6. Pushed + Cardinality(Pushing') <= MaxItems
  BY <1>1, <1>5, Numbers
<1>7. \A u \in Pushing' : u \in Producers /\ value'[u] = <<u, CountOf(u) + 1>>
  <2>1. t \in Threads /\ value'[t] = <<t, CountOf(t) + 1>>
    BY <1>1 DEF IInv, TypeOK, ThreadTypes, Threads
  <2>2. \A u \in Pushing : value'[u] = value[u]
    BY <1>1, <1>3 DEF IInv, TypeOK, ThreadTypes, Pushing
  <2> QED
    BY <1>3, <2>1, <2>2 DEF IInv, CountInv
<1>8. Pushed' = Pushed /\ \A p : CountOf(p)' = CountOf(p)
  BY <1>1, CountSame
<1> QED
  BY <1>1, <1>6, <1>7, <1>8 DEF IInv, CountInv

\* A thread that stops pushing makes room for another one.
LEMMA PushingShrinks ==
  ASSUME IInv, NEW t \in Pushing, NEW l \in Labels \ PushLabels, pc' = [pc EXCEPT ![t] = l]
  PROVE  /\ Pushing' = Pushing \ {t}
         /\ Cardinality(Pushing') = Cardinality(Pushing) - 1
         /\ Cardinality(Pushing) \in Nat \ {0} /\ Pushed < MaxItems
<1>1. t \in Threads /\ pc'[t] = l /\ \A u \in Threads \ {t} : pc'[u] = pc[u]
  BY DEF IInv, TypeOK, ThreadTypes, Pushing
<1>2. Pushing' = Pushing \ {t}
  BY <1>1 DEF Pushing, PushLabels
<1>3. IsFiniteSet(Pushing)
  BY ThreadsAssumption, FS_Subset DEF Pushing
<1>4. Cardinality(Pushing') = Cardinality(Pushing) - 1
  BY <1>2, <1>3, FS_RemoveElement
<1>5. Cardinality(Pushing) \in Nat \ {0}
  BY <1>3, FS_CardinalityType, FS_EmptySet
<1>6. Pushed < MaxItems
  BY <1>5, Numbers DEF IInv, CountInv
<1> QED
  BY <1>2, <1>4, <1>5, <1>6

\* A push that an exception ends gives its number back.
LEMMA CountAfterThrow == ASSUME IInv, NEW t \in Threads, PushThrow(t) PROVE CountInv'
<1>1. /\ pc[t] = "alloc" /\ pc' = [pc EXCEPT ![t] = "idle"] /\ entered' = entered
      /\ value' = [value EXCEPT ![t] = NoItem] /\ t \in Pushing
      /\ "idle" \in Labels \ PushLabels
  BY DEF PushThrow, Return, Goto, histVars, Pushing, Labels, PushLabels
<1>2. Pushing' = Pushing \ {t} /\ Cardinality(Pushing') = Cardinality(Pushing) - 1
      /\ Cardinality(Pushing) \in Nat \ {0}
  BY <1>1, PushingShrinks
<1>3. \A u \in Pushing' : value'[u] = value[u]
  BY <1>1, <1>2 DEF IInv, TypeOK, ThreadTypes, Pushing
<1>4. Pushed + Cardinality(Pushing') <= MaxItems
  BY <1>2, Numbers DEF IInv, CountInv
<1>5. Pushed' = Pushed /\ \A p : CountOf(p)' = CountOf(p)
  BY <1>1, CountSame
<1>6. \A u \in Pushing' : u \in Producers /\ value'[u] = <<u, CountOf(u)' + 1>>
  BY <1>2, <1>3, <1>5 DEF IInv, CountInv
<1> QED
  BY <1>1, <1>4, <1>5, <1>6 DEF IInv, CountInv

\* An item that enters counts for the producer in its first component only.
LEMMA CountOfAppend ==
  ASSUME entered \in Seq(Item), NEW x \in Item, entered' = Append(entered, x), NEW p
  PROVE  CountOf(p)' = IF x[1] = p THEN CountOf(p) + 1 ELSE CountOf(p)
<1> DEFINE S == {i \in 1 .. Len(entered) : entered[i][1] = p}
           T == {i \in 1 .. Len(entered') : entered'[i][1] = p}
<1>1. /\ Len(entered) \in Nat /\ Len(entered') = Len(entered) + 1
      /\ entered'[Len(entered) + 1] = x
      /\ \A i \in 1 .. Len(entered) : entered'[i] = entered[i]
  OBVIOUS
<1>2. CountOf(p) = Cardinality(S) /\ CountOf(p)' = Cardinality(T)
  BY DEF CountOf
<1>3. IsFiniteSet(S)
  <2>1. IsFiniteSet(1 .. Len(entered))
    BY <1>1, FS_Interval
  <2> QED
    BY <2>1, FS_Subset
<1>4. CASE x[1] = p
  <2>1. T = S \cup {Len(entered) + 1} /\ Len(entered) + 1 \notin S
    BY <1>1, <1>4
  <2>2. Cardinality(T) = Cardinality(S) + 1
    BY <1>3, <2>1, FS_AddElement
  <2> QED
    BY <1>2, <1>4, <2>2
<1>5. CASE x[1] # p
  <2>1. T = S
    BY <1>1, <1>5
  <2> QED
    BY <1>2, <1>5, <2>1
<1> QED
  BY <1>4, <1>5

\* The item that a push is about to put in the queue.
LEMMA NewItem ==
  ASSUME IInv, NEW t \in Threads, PushAdvance(t)
  PROVE  /\ t \in Producers /\ t \in Pushing /\ value[t] = <<t, CountOf(t) + 1>>
         /\ value[t] \in Producers \X (1 .. MaxItems) /\ value[t] \in Item
         /\ Pushed < MaxItems /\ CountOf(t) \in 0 .. Pushed
         /\ Pushing' = Pushing \ {t}
         /\ Cardinality(Pushing') = Cardinality(Pushing) - 1
         /\ Cardinality(Pushing) \in Nat \ {0}
<1>1. /\ pc[t] = "advance" /\ pc' = [pc EXCEPT ![t] = "notify"] /\ t \in Pushing
      /\ "notify" \in Labels \ PushLabels
  BY DEF PushAdvance, Goto, Pushing, Labels, PushLabels
<1>2. t \in Producers /\ value[t] = <<t, CountOf(t) + 1>>
  BY <1>1 DEF IInv, CountInv
<1>3. /\ Pushing' = Pushing \ {t} /\ Cardinality(Pushing') = Cardinality(Pushing) - 1
      /\ Cardinality(Pushing) \in Nat \ {0} /\ Pushed < MaxItems
  BY <1>1, PushingShrinks
<1>4. CountOf(t) \in 0 .. Pushed
  BY CountOfType, Numbers
<1>5. CountOf(t) + 1 \in 1 .. MaxItems
  BY <1>3, <1>4, Numbers
<1> QED
  BY <1>1, <1>2, <1>3, <1>4, <1>5 DEF Item

\* The item that enters is the next one of its producer.
LEMMA CountAfterAdvance == ASSUME IInv, NEW t \in Threads, PushAdvance(t) PROVE CountInv'
<1>1. entered' = Append(entered, value[t]) /\ value' = [value EXCEPT ![t] = NoItem]
  BY DEF PushAdvance
<1>2. /\ t \in Producers /\ t \in Pushing /\ value[t] = <<t, CountOf(t) + 1>>
      /\ value[t] \in Producers \X (1 .. MaxItems) /\ value[t] \in Item
      /\ Pushed < MaxItems /\ CountOf(t) \in 0 .. Pushed
      /\ Pushing' = Pushing \ {t}
      /\ Cardinality(Pushing') = Cardinality(Pushing) - 1
      /\ Cardinality(Pushing) \in Nat \ {0}
  BY NewItem
<1>3. /\ Pushed \in Nat /\ Pushed' = Pushed + 1 /\ entered'[Pushed + 1] = value[t]
      /\ \A i \in 1 .. Pushed : entered'[i] = entered[i]
      /\ entered \in Seq(Item)
  BY <1>1 DEF IInv, TypeOK, HistoryTypes, Pushed
<1>4. \A p : CountOf(p)' = IF t = p THEN CountOf(p) + 1 ELSE CountOf(p)
  BY <1>1, <1>2, <1>3, CountOfAppend
<1>5. Pushed' + Cardinality(Pushing') <= MaxItems
  BY <1>2, <1>3, Numbers DEF IInv, CountInv
<1>6. ASSUME NEW p \in Producers
      PROVE  CountOf(p) \in Nat /\ CountOf(p)' \in Nat /\ CountOf(p)' >= CountOf(p)
  <2>1. CountOf(p) \in Nat
    BY CountOfType, Numbers
  <2> QED
    BY <1>4, <2>1
<1>7. ASSUME NEW i \in 1 .. Pushed'
      PROVE  /\ entered'[i] \in Producers \X (1 .. MaxItems)
             /\ \A p \in Producers : entered'[i][1] = p => entered'[i][2] <= CountOf(p)'
  <2>1. CASE i \in 1 .. Pushed
    <3>1. entered'[i] = entered[i] /\ entered[i] \in Producers \X (1 .. MaxItems)
      BY <1>3, <2>1 DEF IInv, CountInv
    <3>2. ASSUME NEW p \in Producers, entered[i][1] = p PROVE entered[i][2] <= CountOf(p)'
      <4>1. entered[i][2] <= CountOf(p) /\ entered[i][2] \in Nat
        BY <2>1, <3>1, <3>2 DEF IInv, CountInv
      <4> QED
        BY <1>6, <4>1
    <3> QED
      BY <3>1, <3>2
  <2>2. CASE i = Pushed + 1
    <3>1. entered'[i] = <<t, CountOf(t) + 1>> /\ CountOf(t)' = CountOf(t) + 1
      BY <1>2, <1>3, <1>4, <2>2
    <3>2. CountOf(t) + 1 \in Nat
      BY <1>2
    <3> QED
      BY <1>2, <1>3, <2>2, <3>1, <3>2
  <2> QED
    BY <1>3, <2>1, <2>2
<1>8. ASSUME NEW i \in 1 .. Pushed', NEW j \in 1 .. Pushed', i < j,
             entered'[i][1] = entered'[j][1]
      PROVE  entered'[i][2] < entered'[j][2]
  <2>1. i \in 1 .. Pushed /\ entered'[i] = entered[i]
    BY <1>3, <1>8
  <2>2. CASE j \in 1 .. Pushed
    BY <1>3, <1>8, <2>1, <2>2 DEF IInv, CountInv
  <2>3. CASE j = Pushed + 1
    <3>1. entered[i][1] = t /\ entered'[j][2] = CountOf(t) + 1
      BY <1>2, <1>3, <1>8, <2>1, <2>3
    <3>2. entered[i][2] <= CountOf(t) /\ entered[i][2] \in Nat
      BY <1>2, <2>1, <3>1 DEF IInv, CountInv
    <3> QED
      BY <1>2, <2>1, <3>1, <3>2
  <2> QED
    BY <1>3, <2>2, <2>3
<1>9. ASSUME NEW u \in Pushing' PROVE u \in Producers /\ value'[u] = <<u, CountOf(u)' + 1>>
  <2>1. u \in Pushing /\ u # t /\ u \in Threads
    BY <1>2 DEF Pushing
  <2>2. value'[u] = value[u] /\ CountOf(u)' = CountOf(u)
    BY <1>1, <1>4, <2>1 DEF IInv, TypeOK, ThreadTypes
  <2> QED
    BY <2>1, <2>2 DEF IInv, CountInv
<1>10. /\ \A i \in 1 .. Pushed' : entered'[i] \in Producers \X (1 .. MaxItems)
       /\ \A p \in Producers : \A i \in 1 .. Pushed' :
            entered'[i][1] = p => entered'[i][2] <= CountOf(p)'
  BY <1>7
<1>11. \A i, j \in 1 .. Pushed' :
         i < j /\ entered'[i][1] = entered'[j][1] => entered'[i][2] < entered'[j][2]
  BY <1>8
<1>12. \A u \in Pushing' : u \in Producers /\ value'[u] = <<u, CountOf(u)' + 1>>
  BY <1>9
<1> QED
  BY <1>5, <1>10, <1>11, <1>12 DEF CountInv

\* A step of one thread that neither starts nor ends a push.
LEMMA CountAfterMove ==
  ASSUME IInv, NEW t \in Threads, NEW l \in Labels, pc' = [pc EXCEPT ![t] = l],
         pc[t] \in PushLabels <=> l \in PushLabels, entered' = entered, value' = value
  PROVE  CountInv'
<1>1. Pushing' = Pushing
  BY PushingFrame
<1> QED
  BY <1>1, CountFrame

\* A step that leaves every thread where it is, or moves threads that do not push.
LEMMA CountAfterOther ==
  ASSUME IInv, entered' = entered, value' = value,
         \A u \in Threads : pc[u] \in PushLabels <=> pc'[u] \in PushLabels
  PROVE  CountInv'
<1>1. Pushing' = Pushing
  BY DEF Pushing, PushLabels
<1> QED
  BY <1>1, CountFrame

\* The steps of push.
LEMMA CountAfterPush == ASSUME IInv, NEW t \in Threads, PushStep(t) PROVE CountInv'
<1>1. ASSUME NEW a \in Addr, PushAlloc(t, a) PROVE CountInv'
  BY <1>1, CountAfterMove DEF PushAlloc, Goto, histVars, Labels, PushLabels
<1>2. CASE PushLock(t)
  BY <1>2, CountAfterMove DEF PushLock, Goto, histVars, Labels, PushLabels
<1>3. CASE PushFill(t)
  BY <1>3, CountAfterMove DEF PushFill, Goto, histVars, Labels, PushLabels
<1>4. CASE PushNotify(t)
  <2>1. pc[t] = "notify" /\ entered' = entered /\ value' = value
    BY <1>4 DEF PushNotify, histVars
  <2>2. CASE Waiters = {}
    BY <1>4, <2>1, <2>2, CountAfterMove DEF PushNotify, Goto, Labels, PushLabels
  <2>3. CASE Waiters # {}
    <3>1. PICK w \in Waiters : pc' = [pc EXCEPT ![t] = "idle", ![w] = "lock_head"]
      BY <1>4, <2>3 DEF PushNotify
    <3>2. /\ w \in Threads /\ pc[w] = "waiting" /\ pc'[t] = "idle" /\ pc'[w] = "lock_head"
          /\ \A u \in Threads \ {t, w} : pc'[u] = pc[u]
      BY <2>1, <3>1 DEF Waiters, IInv, TypeOK, ThreadTypes
    <3>3. \A u \in Threads : pc[u] \in PushLabels <=> pc'[u] \in PushLabels
      BY <2>1, <3>2 DEF PushLabels
    <3> QED
      BY <2>1, <3>3, CountAfterOther
  <2> QED
    BY <2>2, <2>3
<1> QED
  BY <1>1, <1>2, <1>3, <1>4, CountAfterThrow, CountAfterAdvance DEF PushStep

\* The steps of the other operations.
LEMMA CountAfterStep ==
  ASSUME IInv, NEW t \in Threads, LockHead(t) \/ WakeSpuriously(t) \/ PopStep(t) \/ QueryStep(t)
  PROVE  CountInv'
<1> USE DEF Labels, PushLabels
<1>1. CASE LockHead(t) \/ WakeSpuriously(t)
  BY <1>1, CountAfterMove DEF LockHead, WakeSpuriously, Goto, histVars
<1>2. CASE WaitCheck(t)
  <2>1. pc[t] = "get_tail" /\ entered' = entered /\ value' = value
        /\ pc' = [pc EXCEPT ![t] = IF head # tail THEN "unlink" ELSE "block"]
    BY <1>2 DEF WaitCheck, Goto, histVars
  <2> QED
    BY <2>1, CountAfterMove
<1>3. CASE WaitBlock(t)
  BY <1>3, CountAfterMove DEF WaitBlock, Goto, histVars
<1>4. CASE TryCheck(t)
  <2>1. pc[t] = "get_tail" /\ entered' = entered /\ value' = value
    BY <1>4 DEF TryCheck, histVars
  <2>2. pc' = [pc EXCEPT ![t] = "unlink"] \/ pc' = [pc EXCEPT ![t] = "idle"]
    BY <1>4 DEF TryCheck, Return, Goto
  <2> QED
    BY <2>1, <2>2, CountAfterMove
<1>5. CASE PopUnlink(t)
  BY <1>5, CountAfterMove DEF PopUnlink, Goto
<1>6. CASE PopRead(t) \/ PopThrow(t)
  BY <1>6, CountAfterMove DEF PopRead, PopThrow, Return, Goto
<1>7. CASE EmptyCheck(t) \/ SizeReturn(t)
  BY <1>7, CountAfterMove DEF EmptyCheck, SizeReturn, Return, Goto, histVars
<1>8. CASE SizeSnap(t)
  BY <1>8, CountAfterMove DEF SizeSnap, Goto, histVars
<1>9. CASE SizeWalk(t)
  BY <1>9, CountAfterOther DEF SizeWalk, histVars
<1> QED
  BY <1>1, <1>2, <1>3, <1>4, <1>5, <1>6, <1>7, <1>8, <1>9 DEF PopStep, QueryStep

\* Every step keeps the numbers of the items in order.
LEMMA CountHolds == ASSUME IInv, [Next]_vars PROVE CountInv'
<1>1. ASSUME NEW t \in Consumers, NEW o \in PopOps, PopCall(t, o) PROVE CountInv'
  BY <1>1, CountAfterMove DEF PopCall, Call, Goto, histVars, Labels, PushLabels, Threads
<1>2. ASSUME NEW t \in Observers, NEW o \in QueryOps, QueryCall(t, o) PROVE CountInv'
  BY <1>2, CountAfterMove DEF QueryCall, Call, Goto, histVars, Labels, PushLabels, Threads
<1>3. CASE DtorCall
  BY <1>3, CountAfterOther DEF DtorCall, histVars, PushLabels
<1>4. CASE DtorDelete \/ UNCHANGED vars
  BY <1>4, CountAfterOther DEF DtorDelete, vars, histVars
<1> QED
  BY <1>1, <1>2, <1>3, <1>4, CountAfterCall, CountAfterPush, CountAfterStep
     DEF Next, NewCall, Step
------------------------------------------------------------------------------
(* The rest of the types. *)

\* The serial that a push writes fits: there are never more pushes than MaxItems.
LEMMA FillFits ==
  ASSUME IInv, NEW t \in Threads, pc[t] \in {"fill", "advance"}
  PROVE  Pushed < MaxItems /\ t \in Producers /\ Last \in Nat /\ tail_mutex = t /\ ~Gone
<1>1. t \in Pushing
  BY DEF Pushing
<1>2. IsFiniteSet(Pushing)
  BY ThreadsAssumption, FS_Subset DEF Pushing
<1>3. Cardinality(Pushing) \in Nat \ {0}
  BY <1>1, <1>2, FS_CardinalityType, FS_EmptySet
<1>4. Pushed < MaxItems /\ t \in Producers
  BY <1>1, <1>3, Numbers DEF IInv, CountInv
<1>5. tail_mutex = t
  BY DEF IInv, MutexInv, TailLabels
<1> QED
  BY <1>4, <1>5, Numbers, AtWork

\* A push that fills the dummy is the only one at tail, and there is no next node yet.
LEMMA AtFill ==
  ASSUME IInv, NEW t \in Threads, pc[t] = "fill"
  PROVE  /\ ~Advancing /\ Last = Pushed + 1 /\ Nxt(tail) = None
         /\ own[t] \in Addr /\ own[t] # tail /\ own[t] \in live
         /\ Ser(own[t]) = 0 /\ Nxt(own[t]) = None
<1>1. ~Advancing
  BY DEF IInv, MutexInv, TailLabels, Advancing
<1>2. Last = Pushed + 1
  BY <1>1 DEF Last
<1>3. own[t] \in live /\ Ser(own[t]) = 0 /\ Nxt(own[t]) = None /\ own[t] \in Addr
  BY DEF IInv, ListInv, OwnInv, TypeOK, MemoryTypes
<1>4. Ser(tail) = Pushed + 1 /\ ~Gone
  BY AtWork DEF IInv, ListInv, ChainInv
<1>5. First <= Pushed + 1
  BY <1>4, Ends, Numbers
<1>6. Nxt(tail) = None
  BY <1>2, <1>4, <1>5, Numbers DEF IInv, ListInv, ChainInv
<1> QED
  BY <1>1, <1>2, <1>3, <1>4, <1>6, Numbers

\* A push that moves tail finds its own node behind it.
LEMMA AtAdvance ==
  ASSUME IInv, NEW t \in Threads, pc[t] = "advance"
  PROVE  /\ Advancing /\ Last = Pushed + 2 /\ own[t] = Nxt(tail)
         /\ own[t] \in Addr /\ Ser(own[t]) = Pushed + 2
         /\ Ser(tail) = Pushed + 1 /\ Dat(tail) = value[t]
         /\ \A u \in Threads \ {t} : pc[u] \notin TailLabels
<1>1. Advancing
  BY DEF Advancing
<1>2. Last = Pushed + 2
  BY <1>1 DEF Last
<1>3. own[t] = Nxt(tail) /\ Dat(tail) = value[t]
  BY DEF IInv, ListInv, OwnInv
<1>4. Ser(tail) = Pushed + 1 /\ ~Gone
  BY AtWork DEF IInv, ListInv, ChainInv
<1>5. First <= Pushed + 1
  BY <1>4, Ends, Numbers
<1>6. Nxt(tail) \in Addr /\ Ser(Nxt(tail)) = Pushed + 2
  BY <1>2, <1>4, <1>5, Numbers DEF IInv, ListInv, ChainInv
<1>7. \A u \in Threads \ {t} : pc[u] \notin TailLabels
  BY DEF IInv, MutexInv, TailLabels
<1> QED
  BY <1>1, <1>2, <1>3, <1>4, <1>6, <1>7

\* A pop that takes the first item leaves a non-empty list behind.
LEMMA AtUnlink ==
  ASSUME IInv, NEW t \in Threads, pc[t] = "unlink"
  PROVE  /\ ~Gone /\ head \in Addr /\ Ser(head) = Popped + 1 /\ Popped < Pushed /\ head # tail
         /\ First = Popped + 1 /\ head # None
         /\ Nxt(head) \in Addr /\ Ser(Nxt(head)) = Popped + 2
         /\ Dat(head) = entered[Popped + 1] /\ head \in live
         /\ \A u \in Threads \ {t} : pc[u] \notin HeadLabels
<1>1. ~Gone /\ Popped < Pushed
  BY AtWork DEF IInv, MutexInv
<1>2. /\ head \in Addr /\ Ser(head) = Popped + 1 /\ First = Popped + 1 /\ head # None
      /\ Ser(tail) = Pushed + 1
  BY <1>1, Ends
<1>3. Last > Popped + 1
  BY <1>1, Numbers DEF Last
<1>4. Nxt(head) \in Addr /\ Ser(Nxt(head)) = Popped + 2
  BY <1>2, <1>3, Numbers DEF IInv, ListInv, ChainInv
<1>5. Dat(head) = entered[Popped + 1]
  BY <1>1, <1>2, Numbers DEF IInv, ListInv, DataInv
<1>6. head \in live
  BY <1>2, Numbers DEF IInv, ListInv, LiveInv
<1>7. \A u \in Threads \ {t} : pc[u] \notin HeadLabels
  BY DEF IInv, MutexInv, HeadLabels
<1> QED
  BY <1>1, <1>2, <1>4, <1>5, <1>6, <1>7, Numbers

\* The types, group by group.
LEMMA MemoryTypesHold == ASSUME IInv, [Next]_vars PROVE MemoryTypes'
<1> USE DEF MemoryTypes
<1>1. MemoryTypes
  BY DEF IInv, TypeOK
<1>2. CASE UNCHANGED <<listVars, lockVars>>
  BY <1>1, <1>2 DEF listVars, lockVars
<1>3. ASSUME NEW t \in Threads, Step(t) PROVE MemoryTypes'
  <2>1. ASSUME NEW a \in Addr, PushAlloc(t, a) PROVE MemoryTypes'
    <3>1. [data |-> NoItem, next |-> None, serial |-> 0]
            \in [data : Item, next : Addr \cup {None}, serial : 0 .. MaxItems + 1]
      BY ItemsAssumption DEF Item
    <3> QED
      BY <1>1, <2>1, <3>1 DEF PushAlloc, lockVars
  <2>2. CASE PushFill(t)
    <3>1. value[t] \in Item
      BY DEF IInv, TypeOK, ThreadTypes
    <3>2. Pushed < MaxItems /\ own[t] \in Addr /\ own[t] # tail /\ nodes[tail].serial = Pushed + 1
      BY <2>2, FillFits, AtFill DEF PushFill, Ser, IInv, ListInv, ChainInv
    <3>3. Pushed + 2 \in 0 .. MaxItems + 1
      BY <3>2, Numbers
    <3>4. nodes' = [nodes EXCEPT ![tail].data = value[t], ![tail].next = own[t],
                                 ![own[t]].serial = Pushed + 2]
      <4>1. nodes[tail].serial + 1 = Pushed + 2
        BY <3>2, Numbers
      <4> QED
        BY <2>2, <4>1 DEF PushFill
    <3>5. nodes' \in [Addr -> [data : Item, next : Addr \cup {None}, serial : 0 .. MaxItems + 1]]
      BY <1>1, <3>1, <3>2, <3>3, <3>4
    <3> QED
      BY <1>1, <2>2, <3>5 DEF PushFill, lockVars
  <2>3. CASE PushAdvance(t)
    <3>1. own[t] = nodes[tail].next /\ own[t] \in Addr
      BY <2>3, AtAdvance DEF PushAdvance, Nxt
    <3> QED
      BY <1>1, <2>3, <3>1 DEF PushAdvance
  <2>4. CASE PopUnlink(t)
    <3>1. head \in Addr /\ nodes[head].next \in Addr
      BY <2>4, AtUnlink DEF PopUnlink, Nxt
    <3>2. nodes' \in [Addr -> [data : Item, next : Addr \cup {None}, serial : 0 .. MaxItems + 1]]
      BY <1>1, <2>4, <3>1 DEF PopUnlink
    <3> QED
      BY <1>1, <2>4, <3>1, <3>2 DEF PopUnlink
  <2>5. CASE PopRead(t) \/ PopThrow(t)
    BY <1>1, <2>5 DEF PopRead, PopThrow, lockVars
  <2>6. CASE PushLock(t) \/ LockHead(t) \/ TryCheck(t) \/ WaitBlock(t) \/ EmptyCheck(t)
             \/ SizeReturn(t)
    BY <1>1, <2>6 DEF PushLock, LockHead, TryCheck, WaitBlock, EmptyCheck, SizeReturn, listVars
  <2>7. CASE PushThrow(t) \/ PushNotify(t) \/ WaitCheck(t) \/ SizeSnap(t) \/ SizeWalk(t)
    BY <1>2, <2>7 DEF PushThrow, PushNotify, WaitCheck, SizeSnap, SizeWalk
  <2> QED
    BY <1>3, <2>1, <2>2, <2>3, <2>4, <2>5, <2>6, <2>7 DEF Step, PushStep, PopStep, QueryStep
<1>4. CASE NewCall \/ (\E t \in Threads : WakeSpuriously(t)) \/ UNCHANGED vars
  BY <1>2, <1>4 DEF NewCall, PushCall, PopCall, QueryCall, DtorCall, WakeSpuriously, vars
<1>5. CASE DtorDelete
  <2>1. head \in Addr
    BY <1>1, <1>5 DEF DtorDelete
  <2>2. nodes[head].next \in Addr \cup {None}
    BY <1>1, <2>1
  <2> QED
    BY <1>1, <1>5, <2>2 DEF DtorDelete, lockVars
<1> QED
  BY <1>3, <1>4, <1>5 DEF Next

\* The steps that change nothing of a thread but where it is.
LEMMA ThreadFrame ==
  ASSUME IInv, pc' \in [Threads -> Labels], UNCHANGED <<value, own, queryVars>>,
         op' = op \/ \E t \in Threads : \E o \in PopOps \cup QueryOps \cup {"push", "none"} :
                       op' = [op EXCEPT ![t] = o]
  PROVE  ThreadTypes'
<1>1. op' \in [Threads -> PopOps \cup QueryOps \cup {"push", "none"}]
  BY DEF IInv, TypeOK, ThreadTypes
<1> QED
  BY <1>1 DEF IInv, TypeOK, ThreadTypes, queryVars

\* Threads only go where there is code.
LEMMA LabelsHold == ASSUME IInv, [Next]_vars PROVE pc' \in [Threads -> Labels]
<1>0. pc \in [Threads -> Labels]
  BY DEF IInv, TypeOK, ThreadTypes
<1> USE DEF Goto, Return, Call, Labels
<1>1. ASSUME NEW t \in Threads, PushStep(t) PROVE pc' \in [Threads -> Labels]
  <2>1. CASE PushNotify(t)
    BY <1>0, <2>1 DEF PushNotify, Waiters
  <2> QED
    BY <1>0, <1>1, <2>1
       DEF PushStep, PushAlloc, PushThrow, PushLock, PushFill, PushAdvance
<1>2. ASSUME NEW t \in Threads, LockHead(t) \/ WakeSpuriously(t) \/ PopStep(t)
      PROVE  pc' \in [Threads -> Labels]
  BY <1>0, <1>2
     DEF LockHead, WakeSpuriously, PopStep, WaitCheck, WaitBlock, TryCheck, PopUnlink, PopRead,
         PopThrow
<1>3. ASSUME NEW t \in Threads, QueryStep(t) PROVE pc' \in [Threads -> Labels]
  BY <1>0, <1>3 DEF QueryStep, EmptyCheck, SizeSnap, SizeWalk, SizeReturn
<1>4. CASE NewCall
  BY <1>0, <1>4 DEF NewCall, PushCall, PopCall, QueryCall, DtorCall
<1>5. CASE DtorDelete \/ UNCHANGED vars
  BY <1>0, <1>5 DEF DtorDelete, vars
<1> QED
  BY <1>1, <1>2, <1>3, <1>4, <1>5 DEF Next, Step

\* What a thread holds, counts and answers.
LEMMA ThreadTypesHold == ASSUME IInv, [Next]_vars PROVE ThreadTypes'
<1>1. ThreadTypes /\ pc' \in [Threads -> Labels]
  BY LabelsHold DEF IInv, TypeOK
<1>2. NoItem \in Item /\ None \in Addr \cup {None} /\ 0 \in 0 .. MaxItems
      /\ NoAnswer \in 0 .. MaxItems \cup {NoAnswer} /\ 1 \in 0 .. MaxItems
  BY ItemsAssumption DEF Item
<1>3. ASSUME NEW t \in Threads, PushStep(t) PROVE ThreadTypes'
  <2>1. ASSUME NEW a \in Addr, PushAlloc(t, a) PROVE ThreadTypes'
    BY <1>1, <2>1 DEF PushAlloc, ThreadTypes, queryVars
  <2>2. CASE PushThrow(t)
    BY <1>1, <1>2, <2>2 DEF PushThrow, Return, ThreadTypes, queryVars
  <2>3. CASE PushAdvance(t)
    BY <1>1, <1>2, <2>3 DEF PushAdvance, ThreadTypes, queryVars
  <2>4. CASE PushLock(t) \/ PushFill(t) \/ PushNotify(t)
    BY <1>1, <2>4, ThreadFrame DEF PushLock, PushFill, PushNotify
  <2> QED
    BY <1>3, <2>1, <2>2, <2>3, <2>4 DEF PushStep
<1>4. ASSUME NEW t \in Threads, LockHead(t) \/ WakeSpuriously(t) \/ PopStep(t) PROVE ThreadTypes'
  <2>1. CASE LockHead(t) \/ WakeSpuriously(t) \/ WaitCheck(t) \/ WaitBlock(t) \/ TryCheck(t)
    BY <1>1, <2>1, ThreadFrame
       DEF LockHead, WakeSpuriously, WaitCheck, WaitBlock, TryCheck, Return
  <2>2. CASE PopUnlink(t)
    BY <1>1, <2>2 DEF PopUnlink, ThreadTypes, queryVars, IInv, TypeOK, MemoryTypes
  <2>3. CASE PopRead(t) \/ PopThrow(t)
    BY <1>1, <1>2, <2>3 DEF PopRead, PopThrow, Return, ThreadTypes, queryVars
  <2> QED
    BY <1>4, <2>1, <2>2, <2>3 DEF PopStep
<1>5. ASSUME NEW t \in Threads, QueryStep(t) PROVE ThreadTypes'
  <2>1. CASE EmptyCheck(t)
    BY <1>1, <1>2, <2>1 DEF EmptyCheck, Return, ThreadTypes
  <2>2. CASE SizeSnap(t)
    BY <1>1, <1>2, <2>2 DEF SizeSnap, ThreadTypes, IInv, TypeOK, MemoryTypes
  <2>3. CASE SizeWalk(t)
    <3>1. /\ pc[t] = "walk" /\ cur[t] # snap_tail[t] /\ cur[t] \in Addr /\ snap_tail[t] \in Addr
          /\ Popped + 1 <= Ser(cur[t]) /\ Ser(cur[t]) <= Ser(snap_tail[t])
          /\ Ser(snap_tail[t]) <= Pushed + 1 /\ count[t] = Ser(cur[t]) - Popped - 1
      BY <2>3 DEF SizeWalk, IInv, WalkInv
    <3>2. Ser(cur[t]) # Ser(snap_tail[t])
      BY <3>1, Numbers DEF IInv, ListInv, ChainInv
    <3>3. count[t] + 1 \in 0 .. MaxItems
      BY <3>1, <3>2, Numbers
    <3>4. Nxt(cur[t]) \in Addr \cup {None}
      BY <3>1, Numbers
    <3> QED
      BY <1>1, <2>3, <3>3, <3>4 DEF SizeWalk, ThreadTypes, Nxt
  <2>4. CASE SizeReturn(t)
    BY <1>1, <1>2, <2>4 DEF SizeReturn, Return, ThreadTypes
  <2> QED
    BY <1>5, <2>1, <2>2, <2>3, <2>4 DEF QueryStep
<1>6. ASSUME NEW t \in Producers, PushCall(t) PROVE ThreadTypes'
  <2>1. Pushed < MaxItems
    <3>1. IsFiniteSet(Pushing)
      BY ThreadsAssumption, FS_Subset DEF Pushing
    <3>2. Cardinality(Pushing) \in Nat
      BY <3>1, FS_CardinalityType
    <3> QED
      BY <1>6, <3>2, Numbers DEF PushCall, Pushed
  <2>2. CountOf(t) \in 0 .. Pushed
    BY CountOfType, Numbers
  <2>3. CountOf(t) + 1 \in 1 .. MaxItems
    BY <2>1, <2>2, Numbers
  <2>4. <<t, CountOf(t) + 1>> \in Item
    BY <2>3 DEF Item
  <2> QED
    BY <1>1, <1>6, <2>4 DEF PushCall, Call, ThreadTypes, queryVars
<1>7. ASSUME NEW t \in Consumers, NEW o \in PopOps, PopCall(t, o) PROVE ThreadTypes'
  BY <1>1, <1>7, ThreadFrame DEF PopCall, Call, Threads
<1>8. ASSUME NEW t \in Observers, NEW o \in QueryOps, QueryCall(t, o) PROVE ThreadTypes'
  BY <1>1, <1>2, <1>8 DEF QueryCall, Call, ThreadTypes
<1>9. CASE DtorCall \/ DtorDelete \/ UNCHANGED vars
  BY <1>1, <1>9, ThreadFrame DEF DtorCall, DtorDelete, vars
<1> QED
  BY <1>3, <1>4, <1>5, <1>6, <1>7, <1>8, <1>9 DEF Next, NewCall, Step

\* Only items are put in, taken out, returned and lost.
LEMMA HistoryTypesHold == ASSUME IInv, [Next]_vars PROVE HistoryTypes'
<1>1. HistoryTypes /\ nodes \in [Addr -> [data : Item, next : Addr \cup {None},
                                          serial : 0 .. MaxItems + 1]]
  BY DEF IInv, TypeOK, MemoryTypes
<1>2. CASE UNCHANGED histVars
  BY <1>1, <1>2 DEF HistoryTypes, histVars
<1>3. ASSUME NEW t \in Threads, PushAdvance(t) PROVE HistoryTypes'
  <2>1. value[t] \in Item
    BY <1>3, NewItem
  <2> QED
    BY <1>1, <1>3, <2>1 DEF PushAdvance, HistoryTypes
<1>4. ASSUME NEW t \in Threads, PopUnlink(t) PROVE HistoryTypes'
  <2>1. nodes[head].data \in Item
    BY <1>1, <1>4, AtUnlink DEF PopUnlink
  <2> QED
    BY <1>1, <1>4, <2>1 DEF PopUnlink, HistoryTypes
<1>5. ASSUME NEW t \in Threads, PopRead(t) \/ PopThrow(t) PROVE HistoryTypes'
  <2>1. own[t] \in Addr
    BY <1>5, Numbers DEF PopRead, PopThrow, IInv, ListInv, OwnInv
  <2>2. nodes[own[t]].data \in Item
    BY <1>1, <2>1
  <2>3. CASE PopRead(t)
    <3>1. got[t] \in Seq(Item)
      BY <1>1 DEF HistoryTypes
    <3>2. Append(got[t], nodes[own[t]].data) \in Seq(Item)
      BY <2>2, <3>1
    <3> QED
      BY <1>1, <2>3, <3>2 DEF PopRead, HistoryTypes
  <2>4. CASE PopThrow(t)
    BY <1>1, <2>2, <2>4 DEF PopThrow, HistoryTypes
  <2> QED
    BY <1>5, <2>3, <2>4
<1> QED
  BY <1>2, <1>3, <1>4, <1>5
     DEF Next, NewCall, Step, PushStep, PopStep, QueryStep, PushAlloc, PushThrow, PushLock,
         PushFill, PushNotify, LockHead, WaitCheck, WaitBlock, WakeSpuriously, TryCheck,
         EmptyCheck, SizeSnap, SizeWalk, SizeReturn, PushCall, PopCall, QueryCall, DtorCall,
         DtorDelete, vars

\* Every step keeps the types.
LEMMA TypesHold == ASSUME IInv, [Next]_vars PROVE TypeOK'
BY MemoryTypesHold, ThreadTypesHold, HistoryTypesHold DEF TypeOK
------------------------------------------------------------------------------
(* The list and what is in it. *)

\* The parts of the invariant, and the values of the labels it tells apart.
LEMMA Parts ==
  ASSUME IInv
  PROVE  /\ ChainInv /\ LiveInv /\ OwnInv /\ DataInv /\ GotInv /\ HolderInv
         /\ GotPopped /\ GotOrdered /\ GotBeforeRead /\ CountInv /\ MutexInv /\ TypeOK
         /\ \A t \in Threads : own[t] \in Addr \cup {None}
BY DEF IInv, ListInv, GotInv, TypeOK, ThreadTypes

\* No two pushes put the same item in the queue.
LEMMA EnteredOnce ==
  ASSUME IInv, NEW i \in 1 .. Pushed, NEW j \in 1 .. Pushed, entered[i] = entered[j]
  PROVE  i = j
<1>1. Pushed \in Nat /\ entered[i][2] \in Nat
  BY Numbers DEF IInv, CountInv
<1>2. ~(i < j)
  BY <1>1 DEF IInv, CountInv
<1>3. ~(j < i)
  BY <1>1 DEF IInv, CountInv
<1> QED
  BY <1>1, <1>2, <1>3

\* Whatever has left the queue was in it.
LEMMA HeldWasPopped ==
  ASSUME IInv, NEW x, NEW h \in Holders(x) PROVE \E k \in 1 .. Popped : x = entered[k]
<1>1. CASE h \in Threads \X (1 .. MaxItems) /\ h[2] \in DOMAIN got[h[1]] /\ got[h[1]][h[2]] = x
  <2>1. h[2] \in 1 .. Len(got[h[1]]) /\ h[1] \in Threads
    BY <1>1 DEF IInv, TypeOK, HistoryTypes
  <2>2. PICK k \in h[2] .. Popped : got[h[1]][h[2]] = entered[k]
    BY <2>1, Parts DEF GotPopped
  <2>3. k \in 1 .. Popped
    BY <2>1, Numbers
  <2> QED
    BY <1>1, <2>2, <2>3
<1>2. ASSUME NEW t \in Threads, pc[t] = "read", nodes[own[t]].data = x
      PROVE  \E k \in 1 .. Popped : x = entered[k]
  BY <1>2, Parts DEF OwnInv, DataInv, Dat
<1>3. CASE x \in dropped
  BY <1>3, Parts DEF GotPopped
<1> QED
  BY <1>1, <1>2, <1>3 DEF Holders

\* A step that moves no item in or out of the hands of a consumer.
LEMMA SameHolders ==
  ASSUME got' = got, dropped' = dropped,
         \A u \in Threads : pc'[u] = "read" <=> pc[u] = "read",
         \A u \in Threads : pc[u] = "read" => nodes'[own'[u]].data = nodes[own[u]].data,
         NEW x
  PROVE  Holders(x)' = Holders(x)
<1>1. {u \in Threads : pc'[u] = "read" /\ nodes'[own'[u]].data = x}
        = {u \in Threads : pc[u] = "read" /\ nodes[own[u]].data = x}
  OBVIOUS
<1>2. {<<u, 0>> : u \in {v \in Threads : pc'[v] = "read" /\ nodes'[own'[v]].data = x}}
        = {<<u, 0>> : u \in {v \in Threads : pc[v] = "read" /\ nodes[own[v]].data = x}}
  BY <1>1
<1> QED
  BY <1>2 DEF Holders

\* ... and puts none in the queue and takes none out of it.
LEMMA SameGot ==
  ASSUME IInv, UNCHANGED histVars,
         \A u \in Threads : /\ pc'[u] = "read" <=> pc[u] = "read"
                            /\ pc[u] = "read" => nodes'[own'[u]] = nodes[own[u]]
  PROVE  GotInv' /\ HolderInv'
<1>1. /\ entered' = entered /\ taken' = taken /\ got' = got /\ dropped' = dropped
      /\ Pushed' = Pushed /\ Popped' = Popped
  BY DEF histVars, Pushed, Popped
<1>2. GotPopped' /\ GotOrdered'
  BY <1>1, Parts DEF GotPopped, GotOrdered
<1>3. GotBeforeRead'
  BY <1>1, Parts DEF GotBeforeRead, Ser
<1>4. \A x : Holders(x)' = Holders(x)
  BY <1>1, SameHolders
<1>5. HolderInv'
  BY <1>1, <1>4, Parts DEF HolderInv
<1> QED
  BY <1>2, <1>3, <1>5 DEF GotInv

\* A step that neither changes the list nor moves an item.
LEMMA ListFrame ==
  ASSUME IInv, UNCHANGED <<listVars, own, histVars>>, Gone => Gone',
         \A u \in Threads :
            /\ pc'[u] \in {"lock_tail", "fill"} <=> pc[u] \in {"lock_tail", "fill"}
            /\ pc'[u] = "advance" <=> pc[u] = "advance"
            /\ pc'[u] = "read" <=> pc[u] = "read"
            /\ pc[u] = "advance" => value'[u] = value[u]
  PROVE  ListInv'
<1>1. /\ nodes' = nodes /\ live' = live /\ head' = head /\ tail' = tail /\ own' = own
      /\ entered' = entered /\ taken' = taken /\ got' = got /\ dropped' = dropped
  BY DEF listVars, histVars
<1>2. /\ Pushed' = Pushed /\ Popped' = Popped
      /\ \A a : Ser(a)' = Ser(a) /\ Nxt(a)' = Nxt(a) /\ Dat(a)' = Dat(a)
  BY <1>1 DEF Pushed, Popped, Ser, Nxt, Dat
<1>3. Advancing' <=> Advancing
  BY DEF Advancing
<1>4. First' = First /\ Last' = Last
  BY <1>1, <1>2, <1>3 DEF First, Last
<1>5. \A u \in Threads : pc'[u] \in DetachedLabels <=> pc[u] \in DetachedLabels
  BY DEF DetachedLabels
<1>6. Detached' = Detached
  BY <1>1, <1>5 DEF Detached, DetachedLabels
<1>7. ChainInv'
  BY <1>1, <1>2, <1>4, Parts DEF ChainInv
<1>8. LiveInv'
  BY <1>1, <1>2, <1>4, <1>6, Parts DEF LiveInv
<1>9. OwnInv'
  BY <1>1, <1>2, <1>5, Parts DEF OwnInv
<1>10. DataInv'
  BY <1>1, <1>2, Parts DEF DataInv
<1>11. GotInv' /\ HolderInv'
  BY <1>1, SameGot
<1> QED
  BY <1>7, <1>8, <1>9, <1>10, <1>11 DEF ListInv

\* A quiet step of one thread.
LEMMA QuietMove ==
  ASSUME IInv, NEW t \in Threads, NEW l \in Labels, pc[t] # "destroy",
         pc' = [pc EXCEPT ![t] = l], UNCHANGED <<listVars, own, histVars>>,
         {pc[t], l} \cap {"advance", "read"} = {},
         pc[t] \in {"lock_tail", "fill"} <=> l \in {"lock_tail", "fill"},
         \A u \in Threads \ {t} : value'[u] = value[u]
  PROVE  ListInv'
<1>1. pc'[t] = l /\ \A u \in Threads \ {t} : pc'[u] = pc[u]
  BY DEF IInv, TypeOK, ThreadTypes
<1>2. ~Gone
  BY AtWork
<1>3. \A u \in Threads :
            /\ pc'[u] \in {"lock_tail", "fill"} <=> pc[u] \in {"lock_tail", "fill"}
            /\ pc'[u] = "advance" <=> pc[u] = "advance"
            /\ pc'[u] = "read" <=> pc[u] = "read"
            /\ pc[u] = "advance" => value'[u] = value[u]
  BY <1>1
<1> QED
  BY <1>2, <1>3, ListFrame

\* A call that begins.
LEMMA QuietCall == ASSUME IInv, NewCall PROVE ListInv'
<1> USE DEF Labels
<1>1. ASSUME NEW t \in Producers, PushCall(t) PROVE ListInv'
  <2>1. /\ t \in Threads /\ pc[t] = "idle" /\ pc' = [pc EXCEPT ![t] = "alloc"]
        /\ UNCHANGED <<listVars, own, histVars>>
        /\ value' = [value EXCEPT ![t] = <<t, CountOf(t) + 1>>]
    BY <1>1 DEF PushCall, Call, Goto, Threads
  <2>2. \A u \in Threads \ {t} : value'[u] = value[u]
    BY <2>1 DEF IInv, TypeOK, ThreadTypes
  <2> QED
    BY <2>1, <2>2, QuietMove
<1>2. ASSUME NEW t \in Consumers, NEW o \in PopOps, PopCall(t, o) PROVE ListInv'
  BY <1>2, QuietMove DEF PopCall, Call, Goto, Threads
<1>3. ASSUME NEW t \in Observers, NEW o \in QueryOps, QueryCall(t, o) PROVE ListInv'
  BY <1>3, QuietMove DEF QueryCall, Call, Goto, Threads
<1>4. CASE DtorCall
  <2>1. /\ \A u \in Threads : pc[u] = "idle" /\ pc'[u] = "destroy"
        /\ UNCHANGED <<listVars, own, histVars>>
    BY <1>4 DEF DtorCall
  <2>2. Gone => Gone'
    BY <2>1 DEF Gone
  <2> QED
    BY <2>1, <2>2, ListFrame
<1> QED
  BY <1>1, <1>2, <1>3, <1>4 DEF NewCall

\* The steps of push that leave the list alone.
LEMMA QuietPush ==
  ASSUME IInv, NEW t \in Threads, PushThrow(t) \/ PushLock(t) \/ PushNotify(t) PROVE ListInv'
<1> USE DEF Labels
<1>1. CASE PushThrow(t)
  <2>1. /\ pc[t] = "alloc" /\ pc' = [pc EXCEPT ![t] = "idle"]
        /\ UNCHANGED <<listVars, own, histVars>> /\ value' = [value EXCEPT ![t] = NoItem]
    BY <1>1 DEF PushThrow, Return, Goto
  <2>2. \A u \in Threads \ {t} : value'[u] = value[u]
    BY <2>1 DEF IInv, TypeOK, ThreadTypes
  <2> QED
    BY <2>1, <2>2, QuietMove
<1>2. CASE PushLock(t)
  BY <1>2, QuietMove DEF PushLock, Goto
<1>3. CASE PushNotify(t)
  <2>1. pc[t] = "notify" /\ value' = value /\ UNCHANGED <<listVars, own, histVars>>
    BY <1>3 DEF PushNotify
  <2>2. CASE Waiters = {}
    BY <1>3, <2>1, <2>2, QuietMove DEF PushNotify, Goto
  <2>3. CASE Waiters # {}
    <3>1. PICK w \in Waiters : pc' = [pc EXCEPT ![t] = "idle", ![w] = "lock_head"]
      BY <1>3, <2>3 DEF PushNotify
    <3>2. /\ w \in Threads /\ pc[w] = "waiting" /\ pc'[t] = "idle" /\ pc'[w] = "lock_head"
          /\ \A u \in Threads \ {t, w} : pc'[u] = pc[u]
      BY <2>1, <3>1 DEF Waiters, IInv, TypeOK, ThreadTypes
    <3>3. \A u \in Threads :
            /\ pc'[u] \in {"lock_tail", "fill"} <=> pc[u] \in {"lock_tail", "fill"}
            /\ pc'[u] = "advance" <=> pc[u] = "advance"
            /\ pc'[u] = "read" <=> pc[u] = "read"
            /\ pc[u] = "advance" => value'[u] = value[u]
      BY <2>1, <3>2
    <3>4. ~Gone
      BY <2>1, AtWork
    <3> QED
      BY <2>1, <3>3, <3>4, ListFrame
  <2> QED
    BY <2>2, <2>3
<1> QED
  BY <1>1, <1>2, <1>3

\* The steps of the other operations that leave the list alone.
LEMMA QuietStep ==
  ASSUME IInv, NEW t \in Threads,
         \/ LockHead(t) \/ WakeSpuriously(t) \/ WaitCheck(t) \/ WaitBlock(t) \/ TryCheck(t)
         \/ QueryStep(t)
  PROVE  ListInv'
<1> USE DEF Labels
<1>1. CASE LockHead(t) \/ WakeSpuriously(t) \/ WaitBlock(t)
  BY <1>1, QuietMove DEF LockHead, WakeSpuriously, WaitBlock, Goto
<1>2. CASE WaitCheck(t)
  <2>1. /\ pc[t] = "get_tail" /\ value' = value /\ UNCHANGED <<listVars, own, histVars>>
        /\ pc' = [pc EXCEPT ![t] = IF head # tail THEN "unlink" ELSE "block"]
    BY <1>2 DEF WaitCheck, Goto
  <2> QED
    BY <2>1, QuietMove
<1>3. CASE TryCheck(t)
  <2>1. pc[t] = "get_tail" /\ value' = value /\ UNCHANGED <<listVars, own, histVars>>
    BY <1>3 DEF TryCheck
  <2>2. pc' = [pc EXCEPT ![t] = "unlink"] \/ pc' = [pc EXCEPT ![t] = "idle"]
    BY <1>3 DEF TryCheck, Return, Goto
  <2> QED
    BY <2>1, <2>2, QuietMove
<1>4. CASE EmptyCheck(t) \/ SizeReturn(t) \/ SizeSnap(t)
  <2>1. /\ pc[t] \in {"get_tail", "walk"} /\ value' = value
        /\ UNCHANGED <<listVars, own, histVars>>
    BY <1>4 DEF EmptyCheck, SizeReturn, SizeSnap
  <2>2. pc' = [pc EXCEPT ![t] = "idle"] \/ pc' = [pc EXCEPT ![t] = "walk"]
    BY <1>4 DEF EmptyCheck, SizeReturn, SizeSnap, Return, Goto
  <2> QED
    BY <2>1, <2>2, QuietMove
<1>5. CASE SizeWalk(t)
  <2>1. pc' = pc /\ value' = value /\ UNCHANGED <<listVars, own, histVars>>
    BY <1>5 DEF SizeWalk
  <2>2. Gone => Gone'
    BY <2>1 DEF Gone
  <2> QED
    BY <2>1, <2>2, ListFrame
<1> QED
  BY <1>1, <1>2, <1>3, <1>4, <1>5 DEF QueryStep

\* An allocation touches no node that anybody has.
LEMMA ListAfterAlloc ==
  ASSUME IInv, NEW t \in Threads, NEW a \in Addr, PushAlloc(t, a) PROVE ListInv'
<1>1. /\ pc[t] = "alloc" /\ a \notin live /\ live' = live \cup {a}
      /\ nodes' = [nodes EXCEPT ![a] = [data |-> NoItem, next |-> None, serial |-> 0]]
      /\ own' = [own EXCEPT ![t] = a] /\ pc' = [pc EXCEPT ![t] = "lock_tail"]
      /\ head' = head /\ tail' = tail /\ value' = value
      /\ entered' = entered /\ taken' = taken /\ got' = got /\ dropped' = dropped
  BY DEF PushAlloc, Goto, histVars
<1>2. /\ pc'[t] = "lock_tail" /\ own'[t] = a
      /\ \A u \in Threads \ {t} : pc'[u] = pc[u] /\ own'[u] = own[u]
  BY <1>1 DEF IInv, TypeOK, ThreadTypes
<1>3. /\ Ser(a)' = 0 /\ Nxt(a)' = None /\ nodes'[a].serial = 0 /\ nodes'[a].next = None
      /\ \A b \in Addr \ {a} : /\ Ser(b)' = Ser(b) /\ Nxt(b)' = Nxt(b) /\ Dat(b)' = Dat(b)
                               /\ nodes'[b] = nodes[b]
  BY <1>1, Numbers DEF Ser, Nxt, Dat
<1>4. Pushed' = Pushed /\ Popped' = Popped
  BY <1>1 DEF Pushed, Popped
<1>5. ~Gone /\ ~Gone'
  BY <1>1, <1>2, AtWork DEF Gone
<1>6. /\ head \in Addr /\ Ser(head) = Popped + 1 /\ Ser(tail) = Pushed + 1 /\ head # None
      /\ First = Popped + 1
  BY <1>5, Ends
<1>7. ASSUME NEW b \in Addr, Ser(b) >= First PROVE b # a
  BY <1>1, <1>7, Parts DEF LiveInv
<1>8. head # a /\ tail # a
  BY <1>6, <1>7, Numbers
<1>9. Advancing' <=> Advancing
  BY <1>1, <1>2 DEF Advancing
<1>10. First' = First /\ Last' = Last
  BY <1>1, <1>3, <1>4, <1>6, <1>8, <1>9 DEF First, Last
<1>11. ASSUME NEW u \in Threads \ {t}, pc[u] \in DetachedLabels
       PROVE  own[u] \in live /\ own[u] # a /\ own[u] \in Addr
  BY <1>1, <1>11, Numbers, Parts DEF OwnInv, DetachedLabels
<1>12. ChainInv'
  <2>1. \A b \in Addr : Ser(b)' <= Last'
    BY <1>3, <1>10, Numbers
  <2>2. ASSUME NEW b \in Addr, NEW c \in Addr, Ser(b)' = Ser(c)', Ser(b)' >= 1 PROVE b = c
    BY <1>3, <2>2, Parts DEF ChainInv
  <2>3. ASSUME NEW k \in First .. Last PROVE \E b \in Addr : Ser(b)' = k
    <3>1. PICK b \in Addr : Ser(b) = k
      BY Parts DEF ChainInv
    <3> QED
      BY <1>3, <1>7, <3>1, Numbers
  <2>4. ASSUME NEW b \in Addr, Ser(b)' >= First
        PROVE  IF Ser(b)' = Last THEN Nxt(b)' = None
                                 ELSE Nxt(b)' \in Addr /\ nodes'[Nxt(b)'].serial = Ser(b)' + 1
    <3>1. b # a /\ Ser(b)' = Ser(b) /\ Nxt(b)' = Nxt(b)
      BY <1>3, <1>6, <2>4, Numbers
    <3>2. CASE Ser(b) # Last
      <4>1. Nxt(b) \in Addr /\ Ser(Nxt(b)) = Ser(b) + 1
        BY <2>4, <3>1, <3>2, Parts DEF ChainInv
      <4>2. Nxt(b) # a
        BY <1>7, <2>4, <3>1, <4>1, Numbers
      <4> QED
        BY <1>3, <3>1, <3>2, <4>1, <4>2 DEF Ser
    <3> QED
      BY <2>4, <3>1, <3>2, Parts DEF ChainInv
  <2> QED
    BY <1>1, <1>3, <1>4, <1>5, <1>6, <1>8, <1>10, <2>1, <2>2, <2>3, <2>4, Numbers
       DEF ChainInv, Ser
<1>13. LiveInv'
  <2>1. \A b \in Addr : Ser(b)' >= First' => b \in live'
    BY <1>1, <1>3, <1>6, <1>10, Numbers, Parts DEF LiveInv
  <2>2. ASSUME NEW b \in live' PROVE Ser(b)' >= First' \/ b \in Detached'
    <3>1. CASE b = a
      BY <1>2, <3>1 DEF Detached
    <3>2. CASE b # a /\ Ser(b) >= First
      BY <1>1, <1>3, <1>10, <3>2, Numbers
    <3>3. CASE b # a /\ b \in Detached
      <4>1. PICK u \in Threads : pc[u] \in DetachedLabels /\ b = own[u]
        BY <3>3 DEF Detached, DetachedLabels
      <4>2. u # t
        BY <1>1, <4>1 DEF DetachedLabels
      <4> QED
        BY <1>2, <4>1, <4>2 DEF Detached, DetachedLabels
    <3> QED
      BY <1>1, <3>1, <3>2, <3>3, Parts DEF LiveInv
  <2> QED
    BY <2>1, <2>2 DEF LiveInv
<1>14. OwnInv'
  <2>1. ASSUME NEW u \in Threads, pc'[u] \in {"lock_tail", "fill"}
        PROVE  /\ own'[u] \in live' /\ nodes'[own'[u]].serial = 0
               /\ nodes'[own'[u]].next = None
    <3>1. CASE u = t
      BY <1>1, <1>2, <1>3, <3>1
    <3>2. CASE u # t
      BY <1>1, <1>2, <1>3, <1>11, <2>1, <3>2, Parts DEF OwnInv, DetachedLabels, Ser, Nxt
    <3> QED
      BY <3>1, <3>2
  <2>2. ASSUME NEW u \in Threads, pc'[u] = "advance"
        PROVE  own'[u] = Nxt(tail)' /\ Dat(tail)' = value'[u]
    BY <1>1, <1>2, <1>3, <1>8, <2>2, Numbers, Parts DEF OwnInv
  <2>3. ASSUME NEW u \in Threads, pc'[u] = "read"
        PROVE  own'[u] \in live' /\ nodes'[own'[u]].serial \in 1 .. Popped'
    BY <1>1, <1>2, <1>3, <1>4, <1>11, <2>3, Parts DEF OwnInv, DetachedLabels, Ser
  <2>4. ASSUME NEW u \in Threads, NEW v \in Threads, pc'[u] \in DetachedLabels,
               pc'[v] \in DetachedLabels, own'[u] = own'[v]
        PROVE  u = v
    BY <1>2, <1>11, <2>4, Parts DEF OwnInv
  <2> QED
    BY <1>1, <2>1, <2>2, <2>3, <2>4 DEF OwnInv, Ser, Nxt, Dat
<1>15. \A u \in Threads : /\ pc'[u] = "read" <=> pc[u] = "read"
                          /\ pc[u] = "read" => /\ own'[u] = own[u] /\ own[u] \in Addr
                                               /\ nodes'[own[u]] = nodes[own[u]]
  BY <1>1, <1>2, <1>3, <1>11 DEF DetachedLabels
<1>16. DataInv'
  <2>1. \A b \in Addr : Ser(b)' \in Popped + 1 .. Pushed => Dat(b)' = entered[Ser(b)']
    BY <1>3, Numbers, Parts DEF DataInv
  <2> QED
    BY <1>1, <1>4, <1>15, <2>1, Parts DEF DataInv, Ser, Dat
<1>17. GotInv' /\ HolderInv'
  BY <1>1, <1>15, SameGot DEF histVars
<1> QED
  BY <1>12, <1>13, <1>14, <1>16, <1>17 DEF ListInv

\* Filling the dummy and linking the new one behind it: the list has a new end.
LEMMA ListAfterFill == ASSUME IInv, NEW t \in Threads, PushFill(t) PROVE ListInv'
<1>0. PICK d : d = own[t]
  OBVIOUS
<1>1. /\ pc[t] = "fill" /\ pc' = [pc EXCEPT ![t] = "advance"]
      /\ nodes' = [nodes EXCEPT ![tail].data = value[t], ![tail].next = d,
                                ![d].serial = nodes[tail].serial + 1]
      /\ live' = live /\ head' = head /\ tail' = tail /\ own' = own /\ value' = value
      /\ entered' = entered /\ taken' = taken /\ got' = got /\ dropped' = dropped
  BY <1>0 DEF PushFill, Goto, histVars
<1>2. pc'[t] = "advance" /\ \A u \in Threads \ {t} : pc'[u] = pc[u]
  BY <1>1 DEF IInv, TypeOK, ThreadTypes
<1>3. /\ ~Advancing /\ Last = Pushed + 1 /\ Nxt(tail) = None
      /\ d \in Addr /\ d # tail /\ d \in live /\ Ser(d) = 0 /\ Nxt(d) = None
  BY <1>0, <1>1, AtFill
<1>4. ~Gone /\ ~Gone'
  BY <1>1, <1>2, AtWork DEF Gone
<1>5. /\ head \in Addr /\ Ser(head) = Popped + 1 /\ Ser(tail) = Pushed + 1 /\ head # None
      /\ First = Popped + 1 /\ tail \in Addr
  BY <1>4, Ends, Numbers
<1>6. /\ nodes'[d].serial = Pushed + 2 /\ nodes'[d].next = None
      /\ nodes'[tail].serial = Pushed + 1 /\ nodes'[tail].next = d /\ nodes'[tail].data = value[t]
      /\ \A b \in Addr \ {d, tail} : nodes'[b] = nodes[b]
  <2>1. nodes[tail].serial + 1 = Pushed + 2
    BY <1>5, Numbers DEF Ser
  <2> QED
    BY <1>1, <1>3, <1>5, <2>1, Numbers DEF Ser, Nxt
<1>7. /\ Ser(d)' = Pushed + 2 /\ Nxt(d)' = None
      /\ \A b \in Addr \ {d} : Ser(b)' = Ser(b)
      /\ \A b \in Addr \ {tail} : Nxt(b)' = Nxt(b)
      /\ \A b \in Addr \ {d, tail} : Dat(b)' = Dat(b)
  BY <1>3, <1>5, <1>6 DEF Ser, Nxt, Dat
<1>8. Pushed' = Pushed /\ Popped' = Popped
  BY <1>1 DEF Pushed, Popped
<1>9. Advancing' /\ Last' = Pushed + 2
  BY <1>2, <1>8 DEF Advancing, Last
<1>10. head # d /\ First' = First
  BY <1>1, <1>3, <1>5, <1>7, Numbers DEF First
<1>11. ASSUME NEW u \in Threads \ {t}, pc[u] \in DetachedLabels
       PROVE  /\ own[u] \in live /\ own[u] # d /\ own[u] # tail /\ own[u] \in Addr
              /\ nodes'[own[u]] = nodes[own[u]]
  <2>1. own[u] # d
    BY <1>0, <1>1, <1>11, Parts DEF OwnInv, DetachedLabels
  <2>2. own[u] \in live /\ Ser(own[u]) <= Popped
    BY <1>11, Numbers, Parts DEF OwnInv, DetachedLabels
  <2>3. own[u] # tail
    BY <1>5, <2>2, Numbers
  <2> QED
    BY <1>6, <2>1, <2>2, <2>3, Numbers
<1>12. ChainInv'
  <2>1. \A b \in Addr : Ser(b)' <= Last'
    BY <1>3, <1>7, <1>9, Numbers
  <2>2. ASSUME NEW b \in Addr, NEW c \in Addr, Ser(b)' = Ser(c)', Ser(b)' >= 1 PROVE b = c
    <3>1. \A e \in Addr \ {d} : Ser(e)' # Pushed + 2
      BY <1>3, <1>7, Numbers
    <3>2. CASE b = d \/ c = d
      BY <1>7, <2>2, <3>1, <3>2
    <3>3. CASE b # d /\ c # d
      BY <1>7, <2>2, <3>3, Parts DEF ChainInv
    <3> QED
      BY <3>2, <3>3
  <2>3. ASSUME NEW k \in First .. Last' PROVE \E b \in Addr : Ser(b)' = k
    <3>1. CASE k = Pushed + 2
      BY <1>3, <1>7, <3>1
    <3>2. CASE k # Pushed + 2
      <4>1. k \in First .. Last
        BY <1>3, <1>9, <2>3, <3>2, Numbers
      <4>2. PICK b \in Addr : Ser(b) = k
        BY <4>1, Parts DEF ChainInv
      <4>3. b # d
        BY <1>3, <1>5, <4>1, <4>2, Numbers
      <4> QED
        BY <1>7, <4>2, <4>3
    <3> QED
      BY <3>1, <3>2
  <2>4. ASSUME NEW b \in Addr, Ser(b)' >= First
        PROVE  IF Ser(b)' = Last' THEN Nxt(b)' = None
                                  ELSE Nxt(b)' \in Addr /\ nodes'[Nxt(b)'].serial = Ser(b)' + 1
    <3>1. CASE b = d
      BY <1>7, <1>9, <3>1
    <3>2. CASE b = tail
      <4>1. Ser(b)' = Pushed + 1 /\ Nxt(b)' = d
        BY <1>6, <3>2 DEF Ser, Nxt
      <4>2. nodes'[Nxt(b)'].serial = Pushed + 2
        BY <1>6, <4>1
      <4> QED
        BY <1>3, <1>9, <4>1, <4>2, Numbers
    <3>3. CASE b # d /\ b # tail
      <4>1. Ser(b)' = Ser(b) /\ Nxt(b)' = Nxt(b) /\ Ser(b) >= First
        BY <1>7, <2>4, <3>3
      <4>2. Ser(b) # Last
        BY <1>3, <1>5, <3>3, Numbers, Parts DEF ChainInv
      <4>3. Nxt(b) \in Addr /\ Ser(Nxt(b)) = Ser(b) + 1
        BY <4>1, <4>2, Parts DEF ChainInv
      <4>4. Nxt(b) # d
        BY <1>3, <4>3, Numbers
      <4>5. nodes'[Nxt(b)].serial = Ser(b) + 1
        BY <1>7, <4>3, <4>4 DEF Ser
      <4>6. Ser(b) # Last'
        BY <1>3, <1>9, Numbers
      <4> QED
        BY <4>1, <4>3, <4>5, <4>6
    <3> QED
      BY <3>1, <3>2, <3>3
  <2>5. nodes'[tail'].serial = Pushed + 1 /\ nodes'[head'].serial = Popped + 1
    BY <1>1, <1>5, <1>6, <1>7, <1>10 DEF Ser
  <2>6. \A b \in Addr : Ser(b)' >= First' =>
          IF Ser(b)' = Last' THEN Nxt(b)' = None
                             ELSE Nxt(b)' \in Addr /\ nodes'[Nxt(b)'].serial = Ser(b)' + 1
    BY <1>10, <2>4
  <2>7. \A k \in First' .. Last' : \E b \in Addr : Ser(b)' = k
    BY <1>10, <2>3
  <2> QED
    BY <1>1, <1>4, <1>5, <1>8, <1>10, <2>1, <2>2, <2>5, <2>6, <2>7, Numbers
       DEF ChainInv, Ser
<1>13. LiveInv'
  <2>1. \A b \in Addr : Ser(b)' >= First' => b \in live'
    BY <1>1, <1>3, <1>7, <1>10, Parts DEF LiveInv
  <2>2. ASSUME NEW b \in live' PROVE Ser(b)' >= First' \/ b \in Detached'
    <3>1. CASE b = d
      BY <1>5, <1>7, <1>10, <3>1, Numbers
    <3>2. CASE b # d /\ Ser(b) >= First
      BY <1>1, <1>7, <1>10, <3>2, Numbers
    <3>3. CASE b # d /\ b \in Detached
      <4>1. PICK u \in Threads : pc[u] \in DetachedLabels /\ b = own[u]
        BY <3>3 DEF Detached, DetachedLabels
      <4>2. u # t
        BY <1>0, <3>3, <4>1
      <4> QED
        BY <1>1, <1>2, <4>1, <4>2 DEF Detached, DetachedLabels
    <3> QED
      BY <1>1, <3>1, <3>2, <3>3, Parts DEF LiveInv
  <2> QED
    BY <2>1, <2>2 DEF LiveInv
<1>14. OwnInv'
  <2>1. ASSUME NEW u \in Threads, pc'[u] \in {"lock_tail", "fill"}
        PROVE  /\ own'[u] \in live' /\ nodes'[own'[u]].serial = 0
               /\ nodes'[own'[u]].next = None
    <3>1. u # t /\ pc[u] \in {"lock_tail", "fill"} /\ own'[u] = own[u]
      BY <1>1, <1>2, <2>1
    <3>2. own[u] \in live /\ nodes'[own[u]] = nodes[own[u]]
      BY <1>11, <3>1 DEF DetachedLabels
    <3>3. nodes[own[u]].serial = 0 /\ nodes[own[u]].next = None
      BY <3>1, Parts DEF OwnInv, Ser, Nxt
    <3> QED
      BY <1>1, <3>1, <3>2, <3>3
  <2>2. ASSUME NEW u \in Threads, pc'[u] = "advance"
        PROVE  own'[u] = nodes'[tail].next /\ nodes'[tail].data = value'[u]
    <3>1. u = t
      BY <1>2, <1>3, <2>2 DEF Advancing
    <3> QED
      BY <1>0, <1>1, <1>6, <3>1
  <2>3. ASSUME NEW u \in Threads, pc'[u] = "read"
        PROVE  own'[u] \in live' /\ nodes'[own'[u]].serial \in 1 .. Popped'
    <3>1. u # t /\ pc[u] = "read" /\ own'[u] = own[u]
      BY <1>1, <1>2, <2>3
    <3>2. own[u] \in live /\ nodes'[own[u]] = nodes[own[u]]
      BY <1>11, <3>1 DEF DetachedLabels
    <3>3. nodes[own[u]].serial \in 1 .. Popped
      BY <3>1, Parts DEF OwnInv, Ser
    <3> QED
      BY <1>1, <1>8, <3>1, <3>2, <3>3
  <2>4. ASSUME NEW u \in Threads, NEW v \in Threads, pc'[u] \in DetachedLabels,
               pc'[v] \in DetachedLabels, own'[u] = own'[v]
        PROVE  u = v
    BY <1>1, <1>2, <2>4, Parts DEF OwnInv, DetachedLabels
  <2> QED
    BY <1>1, <2>1, <2>2, <2>3, <2>4 DEF OwnInv, Ser, Nxt, Dat
<1>15. \A u \in Threads : /\ pc'[u] = "read" <=> pc[u] = "read"
                          /\ pc[u] = "read" => /\ own'[u] = own[u] /\ own[u] \in Addr
                                               /\ nodes'[own[u]] = nodes[own[u]]
  BY <1>1, <1>2, <1>11 DEF DetachedLabels
<1>16. DataInv'
  <2>1. ASSUME NEW b \in Addr, Ser(b)' \in Popped + 1 .. Pushed PROVE Dat(b)' = entered[Ser(b)']
    <3>1. b # d /\ b # tail
      BY <1>5, <1>7, <2>1, Numbers
    <3> QED
      BY <1>7, <2>1, <3>1, Parts DEF DataInv
  <2>2. \A u \in Threads : pc'[u] = "read" => nodes'[own'[u]].data = entered[nodes'[own'[u]].serial]
    BY <1>15, Parts DEF DataInv, Ser, Dat
  <2>3. \A i \in 1 .. Popped : taken[i] = entered[i]
    BY Parts DEF DataInv
  <2> QED
    BY <1>1, <1>8, <2>1, <2>2, <2>3 DEF DataInv, Ser, Dat
<1>17. GotInv' /\ HolderInv'
  BY <1>1, <1>15, SameGot DEF histVars
<1> QED
  BY <1>12, <1>13, <1>14, <1>16, <1>17 DEF ListInv

\* tail moves on: the item is in the queue, and nobody has it yet.
LEMMA ListAfterAdvance == ASSUME IInv, NEW t \in Threads, PushAdvance(t) PROVE ListInv'
<1>1. /\ pc[t] = "advance" /\ pc' = [pc EXCEPT ![t] = "notify"]
      /\ tail' = Nxt(tail) /\ entered' = Append(entered, value[t])
      /\ own' = [own EXCEPT ![t] = None]
      /\ nodes' = nodes /\ live' = live /\ head' = head
      /\ taken' = taken /\ got' = got /\ dropped' = dropped
  BY DEF PushAdvance, Goto, Nxt
<1>2. pc'[t] = "notify" /\ \A u \in Threads \ {t} : pc'[u] = pc[u] /\ own'[u] = own[u]
  BY <1>1 DEF IInv, TypeOK, ThreadTypes
<1>3. /\ Advancing /\ Last = Pushed + 2 /\ Nxt(tail) \in Addr /\ Ser(Nxt(tail)) = Pushed + 2
      /\ Ser(tail) = Pushed + 1 /\ Dat(tail) = value[t]
      /\ \A u \in Threads \ {t} : pc[u] \notin TailLabels
  BY <1>1, AtAdvance
<1>4. ~Gone /\ ~Gone'
  BY <1>1, <1>2, AtWork DEF Gone
<1>5. head \in Addr /\ Ser(head) = Popped + 1 /\ head # None /\ First = Popped + 1
  BY <1>4, Ends
<1>6. \A a : Ser(a)' = Ser(a) /\ Nxt(a)' = Nxt(a) /\ Dat(a)' = Dat(a)
  BY <1>1 DEF Ser, Nxt, Dat
<1>7. /\ Pushed' = Pushed + 1 /\ Popped' = Popped /\ entered'[Pushed + 1] = value[t]
      /\ \A i \in 1 .. Pushed : entered'[i] = entered[i]
  BY <1>1 DEF IInv, TypeOK, HistoryTypes, Pushed, Popped
<1>8. ~Advancing'
  BY <1>2, <1>3 DEF Advancing, TailLabels
<1>9. Last' = Last /\ First' = First
  BY <1>1, <1>3, <1>5, <1>6, <1>7, <1>8, Numbers DEF Last, First
<1>10. Detached' = Detached
  <2>1. \A u \in Threads : /\ pc'[u] \in {"lock_tail", "fill", "read"}
                                <=> pc[u] \in {"lock_tail", "fill", "read"}
                           /\ pc[u] \in {"lock_tail", "fill", "read"} => own'[u] = own[u]
    BY <1>1, <1>2
  <2> QED
    BY <2>1 DEF Detached
<1>11. ChainInv'
  <2>1. nodes'[tail'].serial = Pushed' + 1
    BY <1>1, <1>3, <1>7, Numbers DEF Ser
  <2>2. Popped' <= Pushed' /\ Popped' + 1 <= First'
    BY <1>5, <1>7, <1>9, Numbers
  <2> QED
    BY <1>1, <1>4, <1>5, <1>6, <1>7, <1>9, <2>1, <2>2, Parts DEF ChainInv, Ser
<1>12. LiveInv'
  BY <1>1, <1>6, <1>9, <1>10, Parts DEF LiveInv
<1>13. OwnInv'
  <2>1. \A u \in Threads : pc'[u] # "advance"
    BY <1>8 DEF Advancing
  <2>2. \A u \in Threads : pc'[u] \in DetachedLabels => u # t /\ pc[u] = pc'[u] /\ own'[u] = own[u]
    BY <1>2 DEF DetachedLabels
  <2> QED
    BY <1>1, <1>6, <1>7, <2>1, <2>2, Parts DEF OwnInv, DetachedLabels, Ser, Nxt
<1>14. DataInv'
  <2>1. ASSUME NEW a \in Addr, Ser(a) \in Popped + 1 .. Pushed + 1
        PROVE  Dat(a) = entered'[Ser(a)]
    <3>1. CASE Ser(a) = Pushed + 1
      <4>1. a = tail
        BY <1>3, <3>1, Numbers, Parts DEF ChainInv
      <4> QED
        BY <1>3, <1>7, <3>1, <4>1
    <3>2. CASE Ser(a) # Pushed + 1
      <4>1. Ser(a) \in Popped + 1 .. Pushed /\ Ser(a) \in 1 .. Pushed
        BY <2>1, <3>2, Numbers
      <4> QED
        BY <1>7, <4>1, Parts DEF DataInv
    <3> QED
      BY <3>1, <3>2
  <2>2. ASSUME NEW u \in Threads, pc'[u] = "read" PROVE nodes[own'[u]].data = entered'[nodes[own'[u]].serial]
    <3>1. pc[u] = "read" /\ own'[u] = own[u]
      BY <1>2, <2>2
    <3>2. Dat(own[u]) = entered[Ser(own[u])] /\ Ser(own[u]) \in 1 .. Pushed
      BY <3>1, Numbers, Parts DEF DataInv, OwnInv
    <3> QED
      BY <1>7, <3>1, <3>2 DEF Dat, Ser
  <2>3. ASSUME NEW i \in 1 .. Popped PROVE taken'[i] = entered'[i]
    <3>1. i \in 1 .. Pushed /\ taken[i] = entered[i]
      BY Numbers, Parts DEF DataInv
    <3> QED
      BY <1>1, <1>7, <3>1
  <2>4. \A a \in Addr : Ser(a)' \in Popped' + 1 .. Pushed' => Dat(a)' = entered'[Ser(a)']
    BY <1>6, <1>7, <2>1
  <2> QED
    BY <1>1, <1>7, <2>2, <2>3, <2>4 DEF DataInv, Dat, Ser
<1>15. \A k \in 1 .. Popped : entered'[k] = entered[k]
  BY <1>7, Numbers
<1>16. GotInv'
  <2>1. \A u \in Threads : pc'[u] = "read" => pc[u] = "read" /\ own'[u] = own[u]
    BY <1>2
  <2>2. GotPopped'
    <3>1. ASSUME NEW u \in Threads, NEW n \in 1 .. Len(got[u])
          PROVE  \E k \in n .. Popped : got[u][n] = entered'[k]
      <4>1. PICK k \in n .. Popped : got[u][n] = entered[k]
        BY Parts DEF GotPopped
      <4>2. k \in 1 .. Popped
        BY <4>1, Numbers
      <4> QED
        BY <1>15, <4>1, <4>2
    <3>2. ASSUME NEW x \in dropped PROVE \E k \in 1 .. Popped : x = entered'[k]
      <4>1. PICK k \in 1 .. Popped : x = entered[k]
        BY Parts DEF GotPopped
      <4> QED
        BY <1>15, <4>1
    <3> QED
      BY <1>1, <1>7, <3>1, <3>2 DEF GotPopped
  <2>3. GotOrdered'
    <3>1. ASSUME NEW u \in Threads, NEW j \in 1 .. Len(got'[u]), NEW i \in 1 .. j - 1,
                 NEW m \in 1 .. Popped', NEW n \in 1 .. Popped',
                 got'[u][i] = entered'[m], got'[u][j] = entered'[n]
          PROVE  m < n
      <4>1. /\ j \in 1 .. Len(got[u]) /\ m \in 1 .. Popped /\ n \in 1 .. Popped
            /\ got[u][i] = entered[m] /\ got[u][j] = entered[n]
        BY <1>1, <1>7, <1>15, <3>1
      <4> QED
        BY <4>1, Parts, Zenon DEF GotOrdered
    <3> QED
      BY <3>1, Zenon DEF GotOrdered
  <2>4. GotBeforeRead'
    <3>1. ASSUME NEW u \in Threads, pc'[u] = "read", NEW i \in 1 .. Len(got[u]),
                 NEW m \in 1 .. Popped, got[u][i] = entered'[m]
          PROVE  m < Ser(own[u])
      <4>1. got[u][i] = entered[m]
        BY <1>15, <3>1
      <4> QED
        BY <2>1, <3>1, <4>1, Parts DEF GotBeforeRead
    <3>2. \A u \in Threads : pc'[u] = "read" => Ser(own[u]) > Len(got[u])
      BY <2>1, Parts DEF GotBeforeRead
    <3> QED
      BY <1>1, <1>7, <2>1, <3>1, <3>2 DEF GotBeforeRead, Ser
  <2> QED
    BY <2>2, <2>3, <2>4 DEF GotInv
<1>17. HolderInv'
  <2>1. \A x : Holders(x)' = Holders(x)
    <3>1. \A u \in Threads : /\ pc'[u] = "read" <=> pc[u] = "read"
                             /\ pc[u] = "read" => own'[u] = own[u]
      BY <1>1, <1>2
    <3> QED
      BY <1>1, <3>1, SameHolders
  <2>2. Holders(value[t]) = {}
    <3>1. ASSUME NEW k \in 1 .. Popped PROVE value[t] # entered[k]
      <4>1. value[t] = <<t, CountOf(t) + 1>> /\ t \in Producers /\ CountOf(t) \in 0 .. Pushed
        BY NewItem
      <4>2. k \in 1 .. Pushed
        BY Numbers
      <4>3. entered[k][1] = t => entered[k][2] <= CountOf(t)
        BY <4>1, <4>2, Parts DEF CountInv
      <4> QED
        BY <4>1, <4>3, Numbers
    <3> QED
      BY <3>1, HeldWasPopped
  <2>3. ASSUME NEW i \in 1 .. Pushed', NEW x, x = entered'[i]
        PROVE  IF i <= Popped THEN \E h : Holders(x)' = {h} ELSE Holders(x)' = {}
    <3>1. CASE i \in 1 .. Pushed
      BY <1>7, <2>1, <2>3, <3>1, Parts DEF HolderInv
    <3>2. CASE i = Pushed + 1
      <4>1. x = value[t] /\ ~(i <= Popped)
        BY <1>7, <2>3, <3>2, Numbers
      <4> QED
        BY <2>1, <2>2, <4>1
    <3> QED
      BY <1>7, <3>1, <3>2, Numbers
  <2> QED
    BY <1>7, <2>3 DEF HolderInv
<1> QED
  BY <1>11, <1>12, <1>13, <1>14, <1>16, <1>17 DEF ListInv

\* The first node leaves the list and belongs to the pop that unlinked it.
LEMMA ListAfterUnlink == ASSUME IInv, NEW t \in Threads, PopUnlink(t) PROVE ListInv'
<1>0. PICK h : h = head
  OBVIOUS
<1>1. /\ pc[t] = "unlink" /\ pc' = [pc EXCEPT ![t] = "read"]
      /\ own' = [own EXCEPT ![t] = h] /\ head' = Nxt(h)
      /\ nodes' = [nodes EXCEPT ![h].next = None] /\ taken' = Append(taken, Dat(h))
      /\ live' = live /\ tail' = tail /\ value' = value
      /\ entered' = entered /\ got' = got /\ dropped' = dropped
  BY <1>0 DEF PopUnlink, Goto, Nxt, Dat
<1>2. /\ pc'[t] = "read" /\ own'[t] = h
      /\ \A u \in Threads \ {t} : pc'[u] = pc[u] /\ own'[u] = own[u]
  BY <1>1 DEF IInv, TypeOK, ThreadTypes
<1>3. /\ h \in Addr /\ Ser(h) = Popped + 1 /\ Popped < Pushed /\ h # tail
      /\ First = Popped + 1 /\ h # None /\ Nxt(h) \in Addr /\ Ser(Nxt(h)) = Popped + 2
      /\ Dat(h) = entered[Popped + 1] /\ h \in live
  BY <1>0, <1>1, AtUnlink
<1>4. ~Gone /\ ~Gone'
  BY <1>1, <1>2, AtWork DEF Gone
<1>5. /\ \A b \in Addr : /\ Ser(b)' = Ser(b) /\ Dat(b)' = Dat(b)
                         /\ nodes'[b].serial = Ser(b) /\ nodes'[b].data = Dat(b)
      /\ \A b \in Addr \ {h} : Nxt(b)' = Nxt(b) /\ nodes'[b].next = Nxt(b)
  BY <1>1, <1>3, Numbers DEF Ser, Nxt, Dat
<1>6. /\ Pushed' = Pushed /\ Popped' = Popped + 1 /\ taken'[Popped + 1] = Dat(h)
      /\ \A i \in 1 .. Popped : taken'[i] = taken[i]
  <2>1. taken \in Seq(Item) /\ Dat(h) \in Item
    BY <1>3, Numbers DEF IInv, TypeOK, HistoryTypes
  <2> QED
    BY <1>1, <2>1 DEF Pushed, Popped
<1>7. Advancing' <=> Advancing
  BY <1>1, <1>2 DEF Advancing
<1>8. Last' = Last /\ First' = Popped + 2
  BY <1>1, <1>3, <1>5, <1>6, <1>7, NoneAssumption DEF First, Last, Ser
<1>9. ASSUME NEW u \in Threads \ {t}, pc[u] \in DetachedLabels
      PROVE  own[u] \in live /\ own[u] \in Addr /\ own[u] # h /\ Ser(own[u]) <= Popped
  BY <1>3, <1>9, Numbers, Parts DEF OwnInv, DetachedLabels
<1>10. \A b \in Addr : Ser(b) >= Popped + 2 => b # h
  BY <1>3, Numbers
<1>11. ChainInv'
  <2>1. \A b \in Addr : Ser(b) <= Last
    BY Numbers
  <2>2. \A b, c \in Addr : Ser(b) = Ser(c) /\ Ser(b) >= 1 => b = c
    BY Parts DEF ChainInv
  <2>3. \A k \in Popped + 2 .. Last : \E b \in Addr : Ser(b) = k
    BY <1>3, Numbers, Parts DEF ChainInv
  <2>4. ASSUME NEW b \in Addr, Ser(b) >= Popped + 2
        PROVE  IF Ser(b) = Last THEN nodes'[b].next = None
                                ELSE /\ nodes'[b].next \in Addr
                                     /\ nodes'[nodes'[b].next].serial = Ser(b) + 1
    <3>1. nodes'[b].next = Nxt(b) /\ Ser(b) >= First
      BY <1>3, <1>5, <1>10, <2>4, Numbers
    <3> QED
      BY <1>5, <3>1, Parts DEF ChainInv
  <2>5. nodes'[tail'].serial = Pushed' + 1 /\ head' \in Addr /\ nodes'[head'].serial = Popped' + 1
    BY <1>1, <1>3, <1>5, <1>6, Numbers, Parts DEF ChainInv
  <2>6. Popped' <= Pushed' /\ Popped' + 1 <= First'
    BY <1>3, <1>6, <1>8, Numbers
  <2>7. \A b \in Addr : Ser(b)' <= Last'
    BY <1>5, <1>8, <2>1
  <2>8. \A b, c \in Addr : Ser(b)' = Ser(c)' /\ Ser(b)' >= 1 => b = c
    BY <1>5, <2>2
  <2>9. \A k \in First' .. Last' : \E b \in Addr : Ser(b)' = k
    BY <1>5, <1>8, <2>3
  <2>10. \A b \in Addr : Ser(b)' >= First' =>
           IF Ser(b)' = Last' THEN nodes'[b].next = None
                              ELSE /\ nodes'[b].next \in Addr
                                   /\ nodes'[nodes'[b].next].serial = Ser(b)' + 1
    BY <1>5, <1>8, <2>4
  <2> QED
    BY <2>5, <2>6, <2>7, <2>8, <2>9, <2>10 DEF ChainInv, Ser, Nxt
<1>12. LiveInv'
  <2>1. \A b \in Addr : Ser(b)' >= First' => b \in live'
    BY <1>1, <1>3, <1>5, <1>8, Numbers, Parts DEF LiveInv
  <2>2. ASSUME NEW b \in live' PROVE Ser(b)' >= First' \/ b \in Detached'
    <3>1. CASE b = h
      BY <1>2, <3>1 DEF Detached
    <3>2. CASE b # h /\ Ser(b) >= First
      <4>1. b \in Addr /\ Ser(b) # Popped + 1
        BY <1>1, <1>3, <3>2, Numbers, Parts DEF ChainInv
      <4> QED
        BY <1>3, <1>5, <1>8, <3>2, <4>1, Numbers
    <3>3. CASE b # h /\ b \in Detached
      <4>1. PICK u \in Threads : pc[u] \in DetachedLabels /\ b = own[u]
        BY <3>3 DEF Detached, DetachedLabels
      <4>2. u # t
        BY <1>1, <4>1 DEF DetachedLabels
      <4> QED
        BY <1>2, <4>1, <4>2 DEF Detached, DetachedLabels
    <3> QED
      BY <1>1, <3>1, <3>2, <3>3, Parts DEF LiveInv
  <2> QED
    BY <2>1, <2>2 DEF LiveInv
<1>13. \A u \in Threads : pc'[u] \in DetachedLabels /\ u # t =>
         /\ pc[u] = pc'[u] /\ pc[u] \in DetachedLabels /\ own'[u] = own[u]
         /\ own[u] \in live /\ own[u] \in Addr /\ own[u] # h /\ Ser(own[u]) <= Popped
  BY <1>2, <1>9
<1>14. OwnInv'
  <2>1. ASSUME NEW u \in Threads, pc'[u] \in {"lock_tail", "fill"}
        PROVE  /\ own'[u] \in live' /\ nodes'[own'[u]].serial = 0
               /\ nodes'[own'[u]].next = None
    <3>1. u # t
      BY <1>2, <2>1
    <3>2. /\ pc[u] \in {"lock_tail", "fill"} /\ own'[u] = own[u] /\ own[u] \in live
          /\ own[u] \in Addr \ {h}
      BY <1>13, <2>1, <3>1 DEF DetachedLabels
    <3> QED
      BY <1>1, <1>5, <3>2, Parts DEF OwnInv
  <2>2. ASSUME NEW u \in Threads, pc'[u] = "advance"
        PROVE  own'[u] = nodes'[tail].next /\ nodes'[tail].data = value'[u]
    <3>1. pc[u] = "advance" /\ own'[u] = own[u]
      BY <1>2, <2>2
    <3> QED
      BY <1>1, <1>3, <1>5, <3>1, Numbers, Parts DEF OwnInv
  <2>3. ASSUME NEW u \in Threads, pc'[u] = "read"
        PROVE  own'[u] \in live' /\ nodes'[own'[u]].serial \in 1 .. Popped'
    <3>1. CASE u = t
      BY <1>1, <1>2, <1>3, <1>5, <1>6, <3>1, Numbers
    <3>2. CASE u # t
      <4>1. pc[u] = "read" /\ own'[u] = own[u] /\ own[u] \in Addr
        BY <1>13, <2>3, <3>2 DEF DetachedLabels
      <4> QED
        BY <1>1, <1>5, <1>6, <4>1, Numbers, Parts DEF OwnInv
    <3> QED
      BY <3>1, <3>2
  <2>4. ASSUME NEW u \in Threads, NEW v \in Threads, pc'[u] \in DetachedLabels,
               pc'[v] \in DetachedLabels, own'[u] = own'[v]
        PROVE  u = v
    BY <1>2, <1>13, <2>4, Parts DEF OwnInv
  <2> QED
    BY <1>1, <2>1, <2>2, <2>3, <2>4 DEF OwnInv, Ser, Nxt, Dat
<1>15. \A u \in Threads : pc'[u] = "read" /\ u # t =>
         pc[u] = "read" /\ own'[u] = own[u] /\ own[u] \in Addr /\ own[u] # h
  BY <1>13 DEF DetachedLabels
<1>16. DataInv'
  <2>1. \A b \in Addr : Ser(b) \in Popped + 2 .. Pushed => Dat(b) = entered[Ser(b)]
    BY Numbers, Parts DEF DataInv
  <2>2. ASSUME NEW u \in Threads, pc'[u] = "read"
        PROVE  nodes'[own'[u]].data = entered[nodes'[own'[u]].serial]
    <3>1. CASE u = t
      BY <1>2, <1>3, <1>5, <3>1
    <3>2. CASE u # t
      BY <1>5, <1>15, <2>2, <3>2, Parts DEF DataInv
    <3> QED
      BY <3>1, <3>2
  <2>3. \A i \in 1 .. Popped + 1 : taken'[i] = entered[i]
    BY <1>3, <1>6, Numbers, Parts DEF DataInv
  <2>4. \A b \in Addr : Ser(b)' \in Popped' + 1 .. Pushed' => Dat(b)' = entered'[Ser(b)']
    BY <1>1, <1>5, <1>6, <2>1, Numbers
  <2> QED
    BY <1>1, <1>6, <2>2, <2>3, <2>4 DEF DataInv, Dat, Ser
<1>17. ASSUME NEW u \in Threads, NEW i \in 1 .. Len(got[u]), NEW m \in 1 .. Popped + 1,
              got[u][i] = entered[m]
       PROVE  m \in 1 .. Popped
  <2>1. PICK k \in i .. Popped : got[u][i] = entered[k]
    BY Parts DEF GotPopped
  <2>2. k \in 1 .. Pushed /\ m \in 1 .. Pushed /\ k <= Popped
    BY <1>3, <2>1, Numbers
  <2>3. m = k
    BY <1>17, <2>1, <2>2, EnteredOnce
  <2> QED
    BY <2>2, <2>3, Numbers
<1>18. GotInv'
  <2>1. GotPopped'
    <3>2. ASSUME NEW u \in Threads, NEW n \in 1 .. Len(got[u])
          PROVE  \E k \in n .. Popped + 1 : got[u][n] = entered[k]
      <4>1. PICK k \in n .. Popped : got[u][n] = entered[k]
        BY Parts DEF GotPopped
      <4>2. k \in n .. Popped + 1
        BY <4>1, Numbers
      <4> QED
        BY <4>1, <4>2
    <3>3. ASSUME NEW x \in dropped PROVE \E k \in 1 .. Popped + 1 : x = entered[k]
      <4>1. PICK k \in 1 .. Popped : x = entered[k]
        BY Parts DEF GotPopped
      <4>2. k \in 1 .. Popped + 1
        BY <4>1, Numbers
      <4> QED
        BY <4>1, <4>2
    <3> QED
      BY <1>1, <1>6, <3>2, <3>3 DEF GotPopped
  <2>2. GotOrdered'
    <3>1. ASSUME NEW u \in Threads, NEW j \in 1 .. Len(got'[u]), NEW i \in 1 .. j - 1,
                 NEW m \in 1 .. Popped', NEW n \in 1 .. Popped',
                 got'[u][i] = entered'[m], got'[u][j] = entered'[n]
          PROVE  m < n
      <4>1. /\ j \in 1 .. Len(got[u]) /\ m \in 1 .. Popped + 1 /\ n \in 1 .. Popped + 1
            /\ got[u][i] = entered[m] /\ got[u][j] = entered[n]
        BY <1>1, <1>6, <3>1
      <4>2. i \in 1 .. Len(got[u])
        BY <4>1 DEF IInv, TypeOK, HistoryTypes
      <4>3. m \in 1 .. Popped /\ n \in 1 .. Popped
        BY <1>17, <4>1, <4>2
      <4> QED
        BY <4>1, <4>3, Parts, Zenon DEF GotOrdered
    <3> QED
      BY <3>1, Zenon DEF GotOrdered
  <2>3. GotBeforeRead'
    <3>1. ASSUME NEW u \in Threads, pc'[u] = "read"
          PROVE  nodes'[own'[u]].serial > Len(got[u])
      <4>1. CASE u = t
        <5>1. Len(got[t]) <= Popped /\ Len(got[t]) \in Nat
          <6>1. Len(got[t]) \in Nat
            BY DEF IInv, TypeOK, HistoryTypes
          <6>2. CASE Len(got[t]) # 0
            <7>1. Len(got[t]) \in 1 .. Len(got[t])
              BY <6>1, <6>2
            <7>2. PICK k \in Len(got[t]) .. Popped : got[t][Len(got[t])] = entered[k]
              BY <7>1, Parts DEF GotPopped
            <7> QED
              BY <6>1, <7>2, Numbers
          <6> QED
            BY <6>1, <6>2, Numbers
        <5>2. nodes'[own'[t]].serial = Popped + 1
          BY <1>2, <1>3, <1>5
        <5> QED
          BY <4>1, <5>1, <5>2, Numbers
      <4>2. CASE u # t
        BY <1>5, <1>15, <3>1, <4>2, Parts DEF GotBeforeRead
      <4> QED
        BY <4>1, <4>2
    <3>2. ASSUME NEW u \in Threads, pc'[u] = "read", NEW i \in 1 .. Len(got[u]),
                 NEW m \in 1 .. Popped + 1, got[u][i] = entered[m]
          PROVE  m < nodes'[own'[u]].serial
      <4>1. m \in 1 .. Popped
        BY <1>17, <3>2
      <4>2. CASE u = t
        <5>1. nodes'[own'[u]].serial = Popped + 1
          BY <1>2, <1>3, <1>5, <4>2
        <5> QED
          BY <4>1, <5>1, Numbers
      <4>3. CASE u # t
        <5>1. pc[u] = "read" /\ nodes'[own'[u]].serial = Ser(own[u])
          BY <1>5, <1>15, <3>2, <4>3
        <5> QED
          BY <3>2, <4>1, <5>1, Parts DEF GotBeforeRead
      <4> QED
        BY <4>2, <4>3
    <3> QED
      BY <1>1, <1>6, <3>1, <3>2 DEF GotBeforeRead, Ser
  <2> QED
    BY <2>1, <2>2, <2>3 DEF GotInv
<1>19. HolderInv'
  <2>1. ASSUME NEW x PROVE Holders(x)' = Holders(x) \cup (IF x = Dat(h) THEN {<<t, 0>>} ELSE {})
    <3>1. {u \in Threads : pc'[u] = "read" /\ nodes'[own'[u]].data = x}
            = {u \in Threads : pc[u] = "read" /\ nodes[own[u]].data = x}
                \cup (IF x = Dat(h) THEN {t} ELSE {})
      <4>1. pc'[t] = "read" /\ nodes'[own'[t]].data = Dat(h) /\ pc[t] # "read"
        BY <1>1, <1>2, <1>3, <1>5
      <4>2. ASSUME NEW u \in Threads \ {t}
            PROVE  (pc'[u] = "read" /\ nodes'[own'[u]].data = x)
                     <=> (pc[u] = "read" /\ nodes[own[u]].data = x)
        BY <1>2, <1>5, <1>9 DEF DetachedLabels, Dat
      <4> QED
        BY <4>1, <4>2
    <3> QED
      BY <1>1, <3>1 DEF Holders
  <2>2. ASSUME NEW i \in 1 .. Pushed, NEW x, x = entered[i]
        PROVE  IF i <= Popped + 1 THEN \E g : Holders(x)' = {g} ELSE Holders(x)' = {}
    <3>1. CASE i = Popped + 1
      <4>1. Holders(x) = {} /\ x = Dat(h)
        BY <1>3, <2>2, <3>1, Numbers, Parts DEF HolderInv
      <4>2. Holders(x)' = {<<t, 0>>} /\ i <= Popped + 1
        BY <2>1, <3>1, <4>1, Numbers
      <4> QED
        BY <4>2
    <3>2. CASE i # Popped + 1
      <4>1. x # Dat(h)
        <5>1. Popped + 1 \in 1 .. Pushed
          BY <1>3, Numbers
        <5> QED
          BY <1>3, <2>2, <3>2, <5>1, EnteredOnce
      <4>2. Holders(x)' = Holders(x)
        BY <2>1, <4>1
      <4>3. i <= Popped + 1 <=> i <= Popped
        BY <3>2, Numbers
      <4> QED
        BY <2>2, <4>2, <4>3, Parts DEF HolderInv
    <3> QED
      BY <3>1, <3>2
  <2> QED
    BY <1>1, <1>6, <2>2 DEF HolderInv
<1> QED
  BY <1>11, <1>12, <1>14, <1>16, <1>18, <1>19 DEF ListInv

\* A pop that ends, with or without an exception, destroys the node it holds.
LEMMA AtRead ==
  ASSUME IInv, NEW t \in Threads, PopRead(t) \/ PopThrow(t)
  PROVE  /\ pc[t] = "read" /\ own[t] \in live /\ own[t] \in Addr
         /\ Ser(own[t]) \in 1 .. Popped /\ nodes[own[t]].data = entered[Ser(own[t])]
         /\ Len(got[t]) \in Nat /\ Len(got[t]) < Ser(own[t])
         /\ live' = live \ {own[t]} /\ own' = [own EXCEPT ![t] = None]
         /\ pc' = [pc EXCEPT ![t] = "idle"]
         /\ nodes' = nodes /\ head' = head /\ tail' = tail /\ value' = value
         /\ entered' = entered /\ taken' = taken
<1>1. /\ pc[t] = "read" /\ live' = live \ {own[t]} /\ own' = [own EXCEPT ![t] = None]
      /\ pc' = [pc EXCEPT ![t] = "idle"]
      /\ nodes' = nodes /\ head' = head /\ tail' = tail /\ value' = value
      /\ entered' = entered /\ taken' = taken
  BY DEF PopRead, PopThrow, Return, Goto
<1>2. Len(got[t]) \in Nat
  BY DEF IInv, TypeOK, HistoryTypes
<1> QED
  BY <1>1, <1>2, Numbers, Parts DEF OwnInv, DataInv, GotBeforeRead, Dat, Ser

\* Destroying that node touches neither the list nor any other thread's node.
LEMMA ChainAfterRead ==
  ASSUME IInv, NEW t \in Threads, PopRead(t) \/ PopThrow(t)
  PROVE  ChainInv' /\ LiveInv' /\ OwnInv' /\ DataInv'
<1>1. /\ pc[t] = "read" /\ own[t] \in live /\ own[t] \in Addr
      /\ Ser(own[t]) \in 1 .. Popped /\ nodes[own[t]].data = entered[Ser(own[t])]
      /\ live' = live \ {own[t]} /\ own' = [own EXCEPT ![t] = None]
      /\ pc' = [pc EXCEPT ![t] = "idle"]
      /\ nodes' = nodes /\ head' = head /\ tail' = tail /\ value' = value
      /\ entered' = entered /\ taken' = taken
  BY AtRead
<1>2. pc'[t] = "idle" /\ \A u \in Threads \ {t} : pc'[u] = pc[u] /\ own'[u] = own[u]
  BY <1>1 DEF IInv, TypeOK, ThreadTypes
<1>3. /\ Pushed' = Pushed /\ Popped' = Popped
      /\ \A a : Ser(a)' = Ser(a) /\ Nxt(a)' = Nxt(a) /\ Dat(a)' = Dat(a)
  BY <1>1 DEF Pushed, Popped, Ser, Nxt, Dat
<1>4. ~Gone /\ ~Gone'
  BY <1>1, <1>2, AtWork DEF Gone
<1>5. Advancing' <=> Advancing
  BY <1>1, <1>2 DEF Advancing
<1>6. First' = First /\ Last' = Last
  BY <1>1, <1>3, <1>5 DEF First, Last
<1>7. \A u \in Threads : pc'[u] \in DetachedLabels =>
        /\ u # t /\ pc[u] = pc'[u] /\ own'[u] = own[u] /\ own[u] # own[t] /\ own[u] \in Addr \cup {None}
  BY <1>1, <1>2, Parts DEF OwnInv, DetachedLabels
<1>8. ChainInv'
  BY <1>1, <1>3, <1>4, <1>6, Parts DEF ChainInv
<1>9. LiveInv'
  <2>1. \A b \in Addr : Ser(b) >= First => b # own[t]
    BY <1>1, Numbers
  <2>2. ASSUME NEW b \in live' PROVE Ser(b) >= First \/ b \in Detached'
    <3>1. CASE b \in Detached
      <4>1. PICK u \in Threads : pc[u] \in DetachedLabels /\ b = own[u]
        BY <3>1 DEF Detached, DetachedLabels
      <4>2. u # t
        BY <1>1, <4>1
      <4> QED
        BY <1>2, <4>1, <4>2 DEF Detached, DetachedLabels
    <3> QED
      BY <1>1, <3>1, Parts DEF LiveInv
  <2> QED
    BY <1>1, <1>3, <1>6, <2>1, <2>2, Parts DEF LiveInv
<1>10. OwnInv'
  <2>1. ASSUME NEW u \in Threads, pc'[u] \in {"lock_tail", "fill"}
        PROVE  /\ own'[u] \in live' /\ nodes'[own'[u]].serial = 0
               /\ nodes'[own'[u]].next = None
    <3>1. pc[u] = pc'[u] /\ own'[u] = own[u] /\ own[u] # own[t]
      BY <1>7, <2>1 DEF DetachedLabels
    <3> QED
      BY <1>1, <2>1, <3>1, Parts DEF OwnInv, Ser, Nxt
  <2>2. ASSUME NEW u \in Threads, pc'[u] = "advance"
        PROVE  own'[u] = nodes'[tail].next /\ nodes'[tail].data = value'[u]
    <3>1. pc[u] = "advance" /\ own'[u] = own[u]
      BY <1>2, <2>2
    <3> QED
      BY <1>1, <3>1, Parts DEF OwnInv, Nxt, Dat
  <2>3. ASSUME NEW u \in Threads, pc'[u] = "read"
        PROVE  own'[u] \in live' /\ nodes'[own'[u]].serial \in 1 .. Popped'
    <3>1. pc[u] = pc'[u] /\ own'[u] = own[u] /\ own[u] # own[t]
      BY <1>7, <2>3 DEF DetachedLabels
    <3> QED
      BY <1>1, <1>3, <2>3, <3>1, Parts DEF OwnInv, Ser
  <2>4. ASSUME NEW u \in Threads, NEW v \in Threads, pc'[u] \in DetachedLabels,
               pc'[v] \in DetachedLabels, own'[u] = own'[v]
        PROVE  u = v
    BY <1>7, <2>4, Parts DEF OwnInv
  <2> QED
    BY <1>1, <2>1, <2>2, <2>3, <2>4 DEF OwnInv, Ser, Nxt, Dat
<1>11. DataInv'
  <2>1. \A u \in Threads : pc'[u] = "read" => pc[u] = "read" /\ own'[u] = own[u]
    BY <1>2
  <2> QED
    BY <1>1, <1>3, <2>1, Parts DEF DataInv, Dat, Ser
<1> QED
  BY <1>8, <1>9, <1>10, <1>11

\* The item in the node of a thread that reads is in no other place, and stays in one.
LEMMA ReadHolder ==
  ASSUME IInv, NEW t \in Threads, pc[t] = "read", own[t] \in Addr,
         NEW x, x = nodes[own[t]].data
  PROVE  Holders(x) = {<<t, 0>>} /\ Ser(own[t]) \in 1 .. Popped /\ x = entered[Ser(own[t])]
<1>1. Ser(own[t]) \in 1 .. Popped /\ x = entered[Ser(own[t])]
  BY Parts DEF OwnInv, DataInv, Dat
<1>2. <<t, 0>> \in Holders(x)
  BY DEF Holders
<1>3. PICK g : Holders(x) = {g}
  <2>1. Ser(own[t]) \in 1 .. Pushed /\ Ser(own[t]) <= Popped
    BY <1>1, Numbers
  <2> QED
    BY <1>1, <2>1, Parts DEF HolderInv
<1> QED
  BY <1>1, <1>2, <1>3

\* The value reaches the caller, whose sequence stays in order.
LEMMA GotAfterRead == ASSUME IInv, NEW t \in Threads, PopRead(t) PROVE GotInv' /\ HolderInv'
<1>0. PICK s, y, d : s = Ser(own[t]) /\ y = nodes[own[t]].data /\ d = Len(got[t]) + 1
  OBVIOUS
<1>1. /\ pc[t] = "read" /\ own[t] \in Addr /\ s \in 1 .. Popped /\ y = entered[s]
      /\ d \in Nat \ {0} /\ d <= s
      /\ pc' = [pc EXCEPT ![t] = "idle"] /\ own' = [own EXCEPT ![t] = None]
      /\ nodes' = nodes /\ entered' = entered /\ taken' = taken
  BY <1>0, AtRead, Numbers
<1>2. dropped' = dropped /\ got' = [got EXCEPT ![t] = Append(@, y)]
  BY <1>0 DEF PopRead
<1>3. pc'[t] = "idle" /\ \A u \in Threads \ {t} : pc'[u] = pc[u] /\ own'[u] = own[u]
  BY <1>1 DEF IInv, TypeOK, ThreadTypes
<1>4. y \in Item /\ got[t] \in Seq(Item)
  BY <1>0, <1>1, Numbers DEF IInv, TypeOK, HistoryTypes, Dat
<1>5. /\ Len(got'[t]) = d /\ got'[t][d] = y /\ Len(got[t]) = d - 1
      /\ \A i \in 1 .. d - 1 : got'[t][i] = got[t][i]
      /\ \A u \in Threads \ {t} : got'[u] = got[u]
  <2>1. got'[t] = Append(got[t], y) /\ \A u \in Threads \ {t} : got'[u] = got[u]
    BY <1>2 DEF IInv, TypeOK, HistoryTypes
  <2> QED
    BY <1>0, <1>4, <2>1
<1>6. Pushed' = Pushed /\ Popped' = Popped
  BY <1>1 DEF Pushed, Popped
<1>7. \A u \in Threads : pc'[u] = "read" =>
        u # t /\ pc[u] = "read" /\ own'[u] = own[u] /\ got'[u] = got[u]
  BY <1>3, <1>5
<1>8. GotPopped'
  <2>1. ASSUME NEW u \in Threads, NEW n \in 1 .. Len(got'[u])
        PROVE  \E k \in n .. Popped : got'[u][n] = entered[k]
    <3>1. CASE u = t /\ n = d
      BY <1>1, <1>5, <3>1, Numbers
    <3>2. CASE u # t \/ n # d
      <4>1. n \in 1 .. Len(got[u]) /\ got'[u][n] = got[u][n]
        BY <1>1, <1>5, <2>1, <3>2
      <4> QED
        BY <4>1, Parts DEF GotPopped
    <3> QED
      BY <3>1, <3>2
  <2>2. \A x \in dropped : \E k \in 1 .. Popped : x = entered[k]
    BY Parts DEF GotPopped
  <2> QED
    BY <1>1, <1>2, <1>6, <2>1, <2>2 DEF GotPopped
<1>9. GotOrdered'
  <2>1. ASSUME NEW u \in Threads, NEW j \in 1 .. Len(got'[u]), NEW i \in 1 .. j - 1,
               NEW m \in 1 .. Popped', NEW n \in 1 .. Popped',
               got'[u][i] = entered'[m], got'[u][j] = entered'[n]
        PROVE  m < n
    <3>1. m \in 1 .. Popped /\ n \in 1 .. Popped /\ got'[u][i] = entered[m] /\ got'[u][j] = entered[n]
      BY <1>1, <1>6, <2>1
    <3>2. CASE u = t /\ j = d
      <4>1. i \in 1 .. Len(got[t]) /\ got[t][i] = entered[m] /\ entered[n] = entered[s]
        BY <1>1, <1>5, <3>1, <3>2
      <4>2. m < s
        BY <1>0, <1>1, <3>1, <4>1, Parts DEF GotBeforeRead
      <4>3. n \in 1 .. Pushed /\ s \in 1 .. Pushed
        BY <1>1, <3>1, Numbers
      <4>4. n = s
        BY <4>1, <4>3, EnteredOnce
      <4> QED
        BY <4>2, <4>4
    <3>3. CASE u # t \/ j # d
      <4>1. /\ j \in 1 .. Len(got[u]) /\ got'[u][j] = got[u][j] /\ got'[u][i] = got[u][i]
        <5>1. CASE u # t
          BY <1>5, <2>1, <5>1
        <5>2. CASE u = t
          <6>1. j \in 1 .. d - 1 /\ i \in 1 .. d - 1
            BY <1>1, <1>5, <2>1, <3>3, <5>2
          <6> QED
            BY <1>5, <5>2, <6>1
        <5> QED
          BY <5>1, <5>2
      <4>2. got[u][i] = entered[m] /\ got[u][j] = entered[n]
        BY <3>1, <4>1
      <4> QED
        BY <3>1, <4>1, <4>2, Parts, Zenon DEF GotOrdered
    <3> QED
      BY <3>2, <3>3
  <2> QED
    BY <2>1, Zenon DEF GotOrdered
<1>10. GotBeforeRead'
  BY <1>1, <1>6, <1>7, Parts DEF GotBeforeRead, Ser
<1>11. HolderInv'
  <2>1. d \in 1 .. MaxItems
    BY <1>1, Numbers
  <2>2. ASSUME NEW x, x # y PROVE Holders(x)' = Holders(x)
    <3>1. {u \in Threads : pc'[u] = "read" /\ nodes'[own'[u]].data = x}
            = {u \in Threads : pc[u] = "read" /\ nodes[own[u]].data = x}
      BY <1>0, <1>1, <1>3, <2>2
    <3>2. ASSUME NEW g \in Threads \X (1 .. MaxItems)
          PROVE  (g[2] \in DOMAIN got'[g[1]] /\ got'[g[1]][g[2]] = x)
                   <=> (g[2] \in DOMAIN got[g[1]] /\ got[g[1]][g[2]] = x)
      <4>1. CASE g[1] # t
        BY <1>5, <4>1
      <4>2. CASE g[1] = t
        <5>1. DOMAIN got[t] = 1 .. d - 1 /\ DOMAIN got'[t] = 1 .. d
          <6>1. got'[t] = Append(got[t], y)
            BY <1>2 DEF IInv, TypeOK, HistoryTypes
          <6> QED
            BY <1>4, <1>5, <6>1
        <5> QED
          BY <1>1, <1>5, <2>2, <4>2, <5>1
      <4> QED
        BY <4>1, <4>2
    <3> QED
      BY <1>2, <3>1, <3>2 DEF Holders
  <2>3. Holders(y)' = {<<t, d>>}
    <3>1. Holders(y) = {<<t, 0>>}
      BY <1>0, <1>1, ReadHolder
    <3>2. y \notin dropped
      <4>1. <<None, 0>> # <<t, 0>>
        BY NoneAssumption
      <4> QED
        BY <3>1, <4>1 DEF Holders
    <3>3. {u \in Threads : pc'[u] = "read" /\ nodes'[own'[u]].data = y} = {}
      <4>1. \A u \in Threads : pc[u] = "read" /\ nodes[own[u]].data = y => <<u, 0>> \in Holders(y)
        BY DEF Holders
      <4> QED
        BY <1>1, <1>7, <3>1, <4>1
    <3>4. \A g \in Threads \X (1 .. MaxItems) : ~(g[2] \in DOMAIN got[g[1]] /\ got[g[1]][g[2]] = y)
      <4>1. ASSUME NEW g \in Threads \X (1 .. MaxItems), g[2] \in DOMAIN got[g[1]],
                   got[g[1]][g[2]] = y
            PROVE  FALSE
        <5>1. g \in Holders(y)
          BY <4>1 DEF Holders
        <5>2. g[2] = 0
          BY <3>1, <5>1
        <5> QED
          BY <5>2
      <4> QED
        BY <4>1
    <3>5. DOMAIN got[t] = 1 .. d - 1 /\ DOMAIN got'[t] = 1 .. d
      <4>1. got'[t] = Append(got[t], y)
        BY <1>2 DEF IInv, TypeOK, HistoryTypes
      <4> QED
        BY <1>4, <1>5, <4>1
    <3>6. {g \in Threads \X (1 .. MaxItems) : g[2] \in DOMAIN got'[g[1]] /\ got'[g[1]][g[2]] = y}
            = {<<t, d>>}
      <4>1. ASSUME NEW g \in Threads \X (1 .. MaxItems)
            PROVE  (g[2] \in DOMAIN got'[g[1]] /\ got'[g[1]][g[2]] = y) <=> g = <<t, d>>
        <5>1. CASE g[1] # t
          BY <1>5, <3>4, <5>1
        <5>2. CASE g[1] = t /\ g[2] # d
          BY <1>1, <1>5, <3>4, <3>5, <5>2
        <5>3. CASE g[1] = t /\ g[2] = d
          BY <1>1, <1>5, <3>5, <5>3
        <5> QED
          BY <5>1, <5>2, <5>3
      <4>2. <<t, d>> \in Threads \X (1 .. MaxItems)
        BY <2>1
      <4> QED
        BY <4>1, <4>2
    <3> QED
      BY <1>2, <3>2, <3>3, <3>6 DEF Holders
  <2>4. ASSUME NEW i \in 1 .. Pushed, NEW x, x = entered[i]
        PROVE  IF i <= Popped THEN \E g : Holders(x)' = {g} ELSE Holders(x)' = {}
    <3>1. CASE x = y
      <4>1. s \in 1 .. Pushed
        BY <1>1, Numbers
      <4>2. i = s
        BY <1>1, <2>4, <3>1, <4>1, EnteredOnce
      <4>3. Holders(x)' = {<<t, d>>}
        BY <2>3, <3>1 DEF Holders
      <4>4. i <= Popped
        BY <1>1, <4>2, Numbers
      <4> QED
        BY <4>3, <4>4
    <3>2. CASE x # y
      BY <2>2, <2>4, <3>2, Parts DEF HolderInv
    <3> QED
      BY <3>1, <3>2
  <2> QED
    BY <1>1, <1>6, <2>4 DEF HolderInv
<1> QED
  BY <1>8, <1>9, <1>10, <1>11 DEF GotInv

\* The value is lost; it was in the hands of this thread only.
LEMMA GotAfterThrow == ASSUME IInv, NEW t \in Threads, PopThrow(t) PROVE GotInv' /\ HolderInv'
<1>0. PICK s, y : s = Ser(own[t]) /\ y = nodes[own[t]].data
  OBVIOUS
<1>1. /\ pc[t] = "read" /\ own[t] \in Addr /\ s \in 1 .. Popped /\ y = entered[s]
      /\ pc' = [pc EXCEPT ![t] = "idle"] /\ own' = [own EXCEPT ![t] = None]
      /\ nodes' = nodes /\ entered' = entered /\ taken' = taken
  BY <1>0, AtRead
<1>2. dropped' = dropped \cup {y} /\ got' = got
  BY <1>0 DEF PopThrow
<1>3. pc'[t] = "idle" /\ \A u \in Threads \ {t} : pc'[u] = pc[u] /\ own'[u] = own[u]
  BY <1>1 DEF IInv, TypeOK, ThreadTypes
<1>4. Pushed' = Pushed /\ Popped' = Popped
  BY <1>1 DEF Pushed, Popped
<1>5. \A u \in Threads : pc'[u] = "read" => u # t /\ pc[u] = "read" /\ own'[u] = own[u]
  BY <1>3
<1>6. GotPopped'
  BY <1>1, <1>2, <1>4, Parts DEF GotPopped
<1>7. GotOrdered'
  BY <1>1, <1>2, <1>4, Parts DEF GotOrdered
<1>8. GotBeforeRead'
  BY <1>1, <1>2, <1>4, <1>5, Parts DEF GotBeforeRead, Ser
<1>9. HolderInv'
  <2>1. ASSUME NEW x, x # y PROVE Holders(x)' = Holders(x)
    <3>1. {u \in Threads : pc'[u] = "read" /\ nodes'[own'[u]].data = x}
            = {u \in Threads : pc[u] = "read" /\ nodes[own[u]].data = x}
      BY <1>0, <1>1, <1>3, <2>1
    <3>2. x \in dropped' <=> x \in dropped
      BY <1>2, <2>1
    <3> QED
      BY <1>2, <3>1, <3>2 DEF Holders
  <2>2. ASSUME NEW x, x = y PROVE Holders(x)' = {<<None, 0>>}
    <3>1. Holders(x) = {<<t, 0>>}
      BY <1>0, <1>1, <2>2, ReadHolder
    <3>2. {u \in Threads : pc'[u] = "read" /\ nodes'[own'[u]].data = x} = {}
      <4>1. \A u \in Threads : pc[u] = "read" /\ nodes[own[u]].data = x => <<u, 0>> \in Holders(x)
        BY DEF Holders
      <4> QED
        BY <1>1, <1>5, <3>1, <4>1
    <3>3. {g \in Threads \X (1 .. MaxItems) : g[2] \in DOMAIN got[g[1]] /\ got[g[1]][g[2]] = x} = {}
      <4>1. ASSUME NEW g \in Threads \X (1 .. MaxItems), g[2] \in DOMAIN got[g[1]],
                   got[g[1]][g[2]] = x
            PROVE  FALSE
        <5>1. g \in Holders(x)
          BY <4>1 DEF Holders
        <5>2. g[2] = 0
          BY <3>1, <5>1
        <5> QED
          BY <5>2
      <4> QED
        BY <4>1
    <3> QED
      BY <1>2, <2>2, <3>2, <3>3 DEF Holders
  <2>3. ASSUME NEW i \in 1 .. Pushed, NEW x, x = entered[i]
        PROVE  IF i <= Popped THEN \E g : Holders(x)' = {g} ELSE Holders(x)' = {}
    <3>1. CASE x = y
      <4>1. s \in 1 .. Pushed
        BY <1>1, Numbers
      <4>2. i = s
        BY <1>1, <2>3, <3>1, <4>1, EnteredOnce
      <4>3. i <= Popped
        BY <1>1, <4>2, Numbers
      <4> QED
        BY <2>2, <3>1, <4>3
    <3>2. CASE x # y
      BY <2>1, <2>3, <3>2, Parts DEF HolderInv
    <3> QED
      BY <3>1, <3>2
  <2> QED
    BY <1>1, <1>4, <2>3 DEF HolderInv
<1> QED
  BY <1>6, <1>7, <1>8, <1>9 DEF GotInv

\* The destructor walks the chain; nobody is inside a call.
LEMMA ListAfterDelete == ASSUME IInv, DtorDelete PROVE ListInv'
<1>0. PICK h : h = head
  OBVIOUS
<1>1. /\ Gone /\ h # None /\ live' = live \ {h} /\ head' = Nxt(h)
      /\ nodes' = nodes /\ tail' = tail /\ pc' = pc /\ own' = own /\ value' = value
      /\ entered' = entered /\ taken' = taken /\ got' = got /\ dropped' = dropped
  BY <1>0 DEF DtorDelete, Gone, Nxt, histVars
<1>2. \A u \in Threads : pc[u] = "destroy"
  BY <1>1, Parts DEF MutexInv
<1>3. ~Advancing /\ ~Advancing' /\ Gone'
  BY <1>1, <1>2 DEF Advancing, Gone
<1>4. /\ Pushed' = Pushed /\ Popped' = Popped
      /\ \A a : Ser(a)' = Ser(a) /\ Nxt(a)' = Nxt(a) /\ Dat(a)' = Dat(a)
  BY <1>1 DEF Pushed, Popped, Ser, Nxt, Dat
<1>5. h \in Addr /\ Ser(h) = First
  BY <1>0, <1>1 DEF IInv, TypeOK, MemoryTypes, First
<1>6. Last = Pushed + 1 /\ Last' = Last
  BY <1>3, <1>4 DEF Last
<1>7. First' = First + 1
  <2>1. CASE First = Last
    <3>1. Nxt(h) = None
      BY <1>5, <2>1, Numbers, Parts DEF ChainInv
    <3> QED
      BY <1>1, <1>4, <1>6, <2>1, <3>1, Numbers DEF First
  <2>2. CASE First # Last
    <3>1. Nxt(h) \in Addr /\ Ser(Nxt(h)) = First + 1
      BY <1>5, <2>2, Numbers, Parts DEF ChainInv
    <3>2. Nxt(h) # None /\ nodes[Nxt(h)].serial = First + 1
      BY <3>1, NoneAssumption DEF Ser
    <3> QED
      BY <1>1, <3>2 DEF First, Ser
  <2> QED
    BY <2>1, <2>2
<1>8. ChainInv'
  <2>1. \A a \in Addr : Ser(a) >= First + 1 => Ser(a) >= First
    BY Numbers
  <2>2. \A k \in First + 1 .. Last : \E a \in Addr : Ser(a) = k
    BY Numbers, Parts DEF ChainInv
  <2>3. Popped + 1 <= First + 1
    BY Numbers
  <2> QED
    BY <1>1, <1>3, <1>4, <1>6, <1>7, <2>1, <2>2, <2>3, Parts DEF ChainInv
<1>9. LiveInv'
  <2>1. \A a \in Addr : Ser(a) >= First + 1 => a \in live'
    BY <1>1, <1>5, Numbers, Parts DEF LiveInv
  <2>2. ASSUME NEW a \in live' PROVE Ser(a) >= First + 1
    <3>1. a \in Addr /\ a # h /\ a \in live
      BY <1>1, Numbers
    <3>2. a \notin Detached
      BY <1>2 DEF Detached
    <3>3. Ser(a) >= First
      BY <3>1, <3>2, Parts DEF LiveInv
    <3>4. Ser(a) # First
      BY <1>5, <3>1, Numbers, Parts DEF ChainInv
    <3> QED
      BY <3>1, <3>3, <3>4, Numbers
  <2> QED
    BY <1>4, <1>7, <2>1, <2>2 DEF LiveInv
<1>10. OwnInv'
  BY <1>1, <1>2 DEF OwnInv, DetachedLabels
<1>11. DataInv'
  BY <1>1, <1>2, <1>4, Parts DEF DataInv
<1>12. GotInv' /\ HolderInv'
  BY <1>1, <1>2, SameGot DEF histVars
<1> QED
  BY <1>8, <1>9, <1>10, <1>11, <1>12 DEF ListInv

\* Every step keeps the list.
LEMMA ListHolds == ASSUME IInv, [Next]_vars PROVE ListInv'
<1>1. ASSUME NEW t \in Threads, Step(t) \/ WakeSpuriously(t) PROVE ListInv'
  <2>1. CASE PopRead(t) \/ PopThrow(t)
    BY <2>1, ChainAfterRead, GotAfterRead, GotAfterThrow DEF ListInv
  <2> QED
    BY <1>1, <2>1, ListAfterAlloc, ListAfterFill, ListAfterAdvance, ListAfterUnlink, QuietPush,
       QuietStep
       DEF Step, PushStep, PopStep
<1>2. CASE UNCHANGED vars
  <2>1. Gone => Gone'
    BY <1>2 DEF vars, Gone
  <2> QED
    BY <1>2, <2>1, ListFrame DEF vars
<1> QED
  BY <1>1, <1>2, QuietCall, ListAfterDelete DEF Next
------------------------------------------------------------------------------
(* The walk of size(). *)

\* A step that starts no walk, moves no head and renumbers no node of the list.
LEMMA WalkFrame ==
  ASSUME IInv, Popped' = Popped, Pushed' \in Nat, Pushed' >= Pushed,
         \A a \in Addr : Ser(a) >= Popped + 1 => nodes'[a].serial = Ser(a),
         \A u \in Threads : pc'[u] = "walk" =>
            /\ pc[u] = "walk"
            /\ snap_tail'[u] = snap_tail[u] /\ cur'[u] = cur[u] /\ count'[u] = count[u]
  PROVE  WalkInv'
<1>1. ASSUME NEW u \in Threads, pc'[u] = "walk"
      PROVE  /\ snap_tail'[u] \in Addr /\ cur'[u] \in Addr
             /\ Popped' + 1 <= nodes'[cur'[u]].serial
             /\ nodes'[cur'[u]].serial <= nodes'[snap_tail'[u]].serial
             /\ nodes'[snap_tail'[u]].serial <= Pushed' + 1
             /\ count'[u] = nodes'[cur'[u]].serial - Popped' - 1
  <2>1. /\ snap_tail[u] \in Addr /\ cur[u] \in Addr
        /\ Popped + 1 <= Ser(cur[u]) /\ Ser(cur[u]) <= Ser(snap_tail[u])
        /\ Ser(snap_tail[u]) <= Pushed + 1
        /\ count[u] = Ser(cur[u]) - Popped - 1
    BY <1>1 DEF IInv, WalkInv
  <2>2. Popped + 1 <= Ser(snap_tail[u])
    BY <2>1, Numbers
  <2>3. nodes'[cur[u]].serial = Ser(cur[u]) /\ nodes'[snap_tail[u]].serial = Ser(snap_tail[u])
    BY <2>1, <2>2, Numbers
  <2> QED
    BY <1>1, <2>1, <2>3, Numbers
<1> QED
  BY <1>1 DEF WalkInv, Ser

\* A step of one thread that does not go on a walk, and leaves serials alone.
LEMMA WalkMove ==
  ASSUME IInv, NEW t \in Threads, NEW l \in Labels \ {"walk"}, pc' = [pc EXCEPT ![t] = l],
         UNCHANGED <<nodes, entered, taken, snap_tail, cur, count>>
  PROVE  WalkInv'
<1>1. pc'[t] = l /\ \A u \in Threads \ {t} : pc'[u] = pc[u]
  BY DEF IInv, TypeOK, ThreadTypes
<1>2. Popped' = Popped /\ Pushed' \in Nat /\ Pushed' >= Pushed
  BY Numbers DEF Popped, Pushed
<1>3. \A a \in Addr : Ser(a) >= Popped + 1 => nodes'[a].serial = Ser(a)
  BY DEF Ser
<1> QED
  BY <1>1, <1>2, <1>3, WalkFrame

\* A step that leaves everything a walk depends on alone.
LEMMA WalkOther ==
  ASSUME IInv, UNCHANGED <<nodes, entered, taken, snap_tail, cur, count>>,
         \A u \in Threads : pc'[u] = "walk" => pc[u] = "walk"
  PROVE  WalkInv'
<1>1. Popped' = Popped /\ Pushed' \in Nat /\ Pushed' >= Pushed
  BY Numbers DEF Popped, Pushed
<1>2. \A a \in Addr : Ser(a) >= Popped + 1 => nodes'[a].serial = Ser(a)
  BY DEF Ser
<1> QED
  BY <1>1, <1>2, WalkFrame

\* A call that begins.
LEMMA WalkAfterCall == ASSUME IInv, NewCall PROVE WalkInv'
<1> USE DEF Labels
<1>1. ASSUME NEW t \in Producers, PushCall(t) PROVE WalkInv'
  BY <1>1, WalkMove DEF PushCall, Call, Goto, Threads, listVars, queryVars, histVars
<1>2. ASSUME NEW t \in Consumers, NEW o \in PopOps, PopCall(t, o) PROVE WalkInv'
  BY <1>2, WalkMove DEF PopCall, Call, Goto, Threads, listVars, queryVars, histVars
<1>3. ASSUME NEW t \in Observers, NEW o \in QueryOps, QueryCall(t, o) PROVE WalkInv'
  BY <1>3, WalkMove DEF QueryCall, Call, Goto, Threads, listVars, histVars
<1>4. CASE DtorCall
  BY <1>4, WalkOther DEF DtorCall, listVars, queryVars, histVars
<1> QED
  BY <1>1, <1>2, <1>3, <1>4 DEF NewCall

\* Pushes go on during a walk: they touch only nodes behind its end.
LEMMA WalkAfterPush == ASSUME IInv, NEW t \in Threads, PushStep(t) PROVE WalkInv'
<1> USE DEF Labels
<1>1. ASSUME NEW a \in Addr, PushAlloc(t, a) PROVE WalkInv'
  <2>1. /\ pc[t] = "alloc" /\ a \notin live /\ pc' = [pc EXCEPT ![t] = "lock_tail"]
        /\ nodes' = [nodes EXCEPT ![a] = [data |-> NoItem, next |-> None, serial |-> 0]]
        /\ Popped' = Popped /\ Pushed' = Pushed
        /\ snap_tail' = snap_tail /\ cur' = cur /\ count' = count
    BY <1>1 DEF PushAlloc, Goto, histVars, queryVars, Popped, Pushed
  <2>2. ~Gone
    BY <2>1, AtWork
  <2>3. First = Popped + 1
    BY <2>2, Ends
  <2>4. ASSUME NEW b \in Addr, Ser(b) >= Popped + 1 PROVE nodes'[b].serial = Ser(b)
    <3>1. b # a
      BY <2>1, <2>3, <2>4, Parts DEF LiveInv
    <3> QED
      BY <2>1, <3>1, Numbers DEF Ser
  <2>5. \A u \in Threads : pc'[u] = "walk" => pc[u] = "walk"
    BY <2>1 DEF IInv, TypeOK, ThreadTypes
  <2> QED
    BY <2>1, <2>4, <2>5, Numbers, WalkFrame
<1>2. CASE PushThrow(t) \/ PushLock(t)
  <2>1. pc' = [pc EXCEPT ![t] = "idle"] \/ pc' = [pc EXCEPT ![t] = "fill"]
    BY <1>2 DEF PushThrow, PushLock, Return, Goto
  <2>2. UNCHANGED <<nodes, entered, taken, snap_tail, cur, count>>
    BY <1>2 DEF PushThrow, PushLock, listVars, queryVars, histVars
  <2> QED
    BY <2>1, <2>2, WalkMove
<1>3. CASE PushFill(t)
  <2>1. /\ pc[t] = "fill" /\ pc' = [pc EXCEPT ![t] = "advance"]
        /\ nodes' = [nodes EXCEPT ![tail].data = value[t], ![tail].next = own[t],
                                  ![own[t]].serial = nodes[tail].serial + 1]
        /\ Popped' = Popped /\ Pushed' = Pushed
        /\ snap_tail' = snap_tail /\ cur' = cur /\ count' = count
    BY <1>3 DEF PushFill, Goto, histVars, queryVars, Popped, Pushed
  <2>2. own[t] \in Addr /\ Ser(own[t]) = 0
    BY <2>1, AtFill
  <2>3. ASSUME NEW b \in Addr, Ser(b) >= Popped + 1 PROVE nodes'[b].serial = Ser(b)
    <3>1. b # own[t]
      BY <2>2, <2>3, Numbers
    <3> QED
      BY <2>1, <3>1, Numbers DEF Ser
  <2>4. \A u \in Threads : pc'[u] = "walk" => pc[u] = "walk"
    BY <2>1 DEF IInv, TypeOK, ThreadTypes
  <2> QED
    BY <2>1, <2>3, <2>4, Numbers, WalkFrame
<1>4. CASE PushAdvance(t)
  <2>1. /\ pc[t] = "advance" /\ pc' = [pc EXCEPT ![t] = "notify"] /\ nodes' = nodes
        /\ Popped' = Popped /\ entered' = Append(entered, value[t])
        /\ snap_tail' = snap_tail /\ cur' = cur /\ count' = count
    BY <1>4 DEF PushAdvance, Goto, queryVars, Popped
  <2>2. Pushed' = Pushed + 1
    BY <2>1 DEF IInv, TypeOK, HistoryTypes, Pushed
  <2>3. \A u \in Threads : pc'[u] = "walk" => pc[u] = "walk"
    BY <2>1 DEF IInv, TypeOK, ThreadTypes
  <2>4. \A b \in Addr : nodes'[b].serial = Ser(b)
    BY <2>1 DEF Ser
  <2>5. Pushed' \in Nat /\ Pushed' >= Pushed
    BY <2>2, Numbers
  <2> QED
    BY <2>1, <2>3, <2>4, <2>5, WalkFrame
<1>5. CASE PushNotify(t)
  <2>1. UNCHANGED <<nodes, entered, taken, snap_tail, cur, count>>
    BY <1>5 DEF PushNotify, listVars, queryVars, histVars
  <2>2. \A u \in Threads : pc'[u] = "walk" => pc[u] = "walk"
    BY <1>5 DEF PushNotify, Goto, Waiters, IInv, TypeOK, ThreadTypes
  <2> QED
    BY <2>1, <2>2, WalkOther
<1> QED
  BY <1>1, <1>2, <1>3, <1>4, <1>5 DEF PushStep

\* Pops do not: whoever walks has head_mutex.
LEMMA WalkAfterPop ==
  ASSUME IInv, NEW t \in Threads, LockHead(t) \/ WakeSpuriously(t) \/ PopStep(t) PROVE WalkInv'
<1> USE DEF Labels
<1>1. CASE LockHead(t) \/ WakeSpuriously(t) \/ WaitBlock(t)
  <2>1. \E l \in {"get_tail", "lock_head", "waiting"} : pc' = [pc EXCEPT ![t] = l]
    BY <1>1 DEF LockHead, WakeSpuriously, WaitBlock, Goto
  <2>2. UNCHANGED <<nodes, entered, taken, snap_tail, cur, count>>
    BY <1>1 DEF LockHead, WakeSpuriously, WaitBlock, listVars, queryVars, histVars
  <2> QED
    BY <2>1, <2>2, WalkMove
<1>2. CASE WaitCheck(t) \/ TryCheck(t)
  <2>1. \E l \in {"unlink", "block", "idle"} : pc' = [pc EXCEPT ![t] = l]
    BY <1>2 DEF WaitCheck, TryCheck, Return, Goto
  <2>2. UNCHANGED <<nodes, entered, taken, snap_tail, cur, count>>
    BY <1>2 DEF WaitCheck, TryCheck, listVars, queryVars, histVars
  <2> QED
    BY <2>1, <2>2, WalkMove
<1>3. CASE PopUnlink(t)
  <2>1. pc[t] = "unlink" /\ pc' = [pc EXCEPT ![t] = "read"]
    BY <1>3 DEF PopUnlink, Goto
  <2>2. \A u \in Threads \ {t} : pc[u] # "walk"
    BY <2>1, AtUnlink DEF HeadLabels
  <2>3. \A u \in Threads : pc'[u] # "walk"
    BY <2>1, <2>2 DEF IInv, TypeOK, ThreadTypes
  <2> QED
    BY <2>3 DEF WalkInv
<1>4. CASE PopRead(t) \/ PopThrow(t)
  BY <1>4, WalkMove DEF PopRead, PopThrow, Return, Goto, queryVars
<1> QED
  BY <1>1, <1>2, <1>3, <1>4 DEF PopStep

\* The steps of size() and empty().
LEMMA WalkAfterQuery == ASSUME IInv, NEW t \in Threads, QueryStep(t) PROVE WalkInv'
<1> USE DEF Labels
<1>1. CASE EmptyCheck(t)
  BY <1>1, WalkMove DEF EmptyCheck, Return, Goto, listVars, histVars
<1>2. /\ snap_tail \in [Threads -> Addr \cup {None}] /\ cur \in [Threads -> Addr \cup {None}]
      /\ count \in [Threads -> 0 .. MaxItems] /\ pc \in [Threads -> Labels]
  BY DEF IInv, TypeOK, ThreadTypes
<1>3. CASE SizeSnap(t)
  <2>1. /\ pc[t] = "get_tail" /\ pc' = [pc EXCEPT ![t] = "walk"]
        /\ snap_tail' = [snap_tail EXCEPT ![t] = tail] /\ cur' = [cur EXCEPT ![t] = head]
        /\ count' = [count EXCEPT ![t] = 0] /\ nodes' = nodes
        /\ Popped' = Popped /\ Pushed' = Pushed
    BY <1>3 DEF SizeSnap, Goto, listVars, histVars, Popped, Pushed
  <2>2. head \in Addr /\ tail \in Addr /\ Ser(head) = Popped + 1 /\ Ser(tail) = Pushed + 1
    BY <2>1, AtWork, Ends, Numbers
  <2>3. ASSUME NEW u \in Threads, pc'[u] = "walk"
        PROVE  /\ snap_tail'[u] \in Addr /\ cur'[u] \in Addr
               /\ Popped + 1 <= Ser(cur'[u]) /\ Ser(cur'[u]) <= Ser(snap_tail'[u])
               /\ Ser(snap_tail'[u]) <= Pushed + 1
               /\ count'[u] = Ser(cur'[u]) - Popped - 1
    <3>1. CASE u = t
      BY <1>2, <2>1, <2>2, <3>1, Numbers
    <3>2. CASE u # t
      <4>1. /\ pc[u] = "walk" /\ snap_tail'[u] = snap_tail[u] /\ cur'[u] = cur[u]
            /\ count'[u] = count[u]
        BY <1>2, <2>1, <2>3, <3>2
      <4> QED
        BY <4>1 DEF IInv, WalkInv
    <3> QED
      BY <3>1, <3>2
  <2> QED
    BY <2>1, <2>3 DEF WalkInv, Ser
<1>4. CASE SizeWalk(t)
  <2>1. /\ pc[t] = "walk" /\ cur[t] # snap_tail[t] /\ pc' = pc /\ snap_tail' = snap_tail
        /\ cur' = [cur EXCEPT ![t] = Nxt(cur[t])] /\ count' = [count EXCEPT ![t] = @ + 1]
        /\ nodes' = nodes /\ Popped' = Popped /\ Pushed' = Pushed
    BY <1>4 DEF SizeWalk, listVars, histVars, Popped, Pushed, Nxt
  <2>2. /\ snap_tail[t] \in Addr /\ cur[t] \in Addr
        /\ Popped + 1 <= Ser(cur[t]) /\ Ser(cur[t]) <= Ser(snap_tail[t])
        /\ Ser(snap_tail[t]) <= Pushed + 1
        /\ count[t] = Ser(cur[t]) - Popped - 1
    BY <2>1 DEF IInv, WalkInv
  <2>3. Ser(cur[t]) # Ser(snap_tail[t])
    BY <2>1, <2>2, Numbers, Parts DEF ChainInv
  <2>4. Ser(cur[t]) >= First /\ Ser(cur[t]) # Last
    <3>1. First = Popped + 1
      BY <2>1, AtWork, Ends
    <3>2. Ser(cur[t]) < Last
      BY <2>2, <2>3, Numbers DEF Last
    <3> QED
      BY <2>2, <3>1, <3>2, Numbers
  <2>5. Nxt(cur[t]) \in Addr /\ Ser(Nxt(cur[t])) = Ser(cur[t]) + 1
    BY <2>2, <2>4, Parts DEF ChainInv
  <2>6. ASSUME NEW u \in Threads, pc'[u] = "walk"
        PROVE  /\ snap_tail'[u] \in Addr /\ cur'[u] \in Addr
               /\ Popped + 1 <= Ser(cur'[u]) /\ Ser(cur'[u]) <= Ser(snap_tail'[u])
               /\ Ser(snap_tail'[u]) <= Pushed + 1
               /\ count'[u] = Ser(cur'[u]) - Popped - 1
    <3>1. CASE u = t
      <4>1. cur'[u] = Nxt(cur[t]) /\ count'[u] = count[t] + 1 /\ snap_tail'[u] = snap_tail[t]
        BY <1>2, <2>1, <3>1
      <4> QED
        BY <2>2, <2>3, <2>5, <4>1, Numbers
    <3>2. CASE u # t
      <4>1. /\ pc[u] = "walk" /\ snap_tail'[u] = snap_tail[u] /\ cur'[u] = cur[u]
            /\ count'[u] = count[u]
        BY <1>2, <2>1, <2>6, <3>2
      <4> QED
        BY <4>1 DEF IInv, WalkInv
    <3> QED
      BY <3>1, <3>2
  <2> QED
    BY <2>1, <2>6 DEF WalkInv, Ser
<1>5. CASE SizeReturn(t)
  <2>1. /\ pc' = [pc EXCEPT ![t] = "idle"] /\ nodes' = nodes
        /\ snap_tail' = [snap_tail EXCEPT ![t] = None] /\ cur' = [cur EXCEPT ![t] = None]
        /\ count' = [count EXCEPT ![t] = 0] /\ Popped' = Popped /\ Pushed' = Pushed
    BY <1>5 DEF SizeReturn, Return, Goto, listVars, histVars, Popped, Pushed
  <2>2. \A u \in Threads : pc'[u] = "walk" =>
            /\ pc[u] = "walk"
            /\ snap_tail'[u] = snap_tail[u] /\ cur'[u] = cur[u] /\ count'[u] = count[u]
    BY <1>2, <2>1
  <2>3. \A a \in Addr : Ser(a) >= Popped + 1 => nodes'[a].serial = Ser(a)
    BY <2>1 DEF Ser
  <2>4. Pushed' \in Nat /\ Pushed' >= Pushed
    BY <2>1, Numbers
  <2> QED
    BY <2>1, <2>2, <2>3, <2>4, WalkFrame
<1> QED
  BY <1>1, <1>3, <1>4, <1>5 DEF QueryStep

\* Every step keeps the walks.
LEMMA WalkHolds == ASSUME IInv, [Next]_vars PROVE WalkInv'
<1>1. CASE DtorDelete
  BY <1>1, WalkOther DEF DtorDelete, queryVars, histVars
<1>2. CASE UNCHANGED vars
  BY <1>2, WalkOther DEF vars, listVars, queryVars, histVars
<1> QED
  BY <1>1, <1>2, WalkAfterCall, WalkAfterPush, WalkAfterPop, WalkAfterQuery DEF Next, Step

\* A thread gives up its node with the last step that uses it.
LEMMA KeepHolds == ASSUME IInv, [Next]_vars PROVE KeepInv'
<1>0. /\ pc \in [Threads -> Labels] /\ own \in [Threads -> Addr \cup {None}] /\ KeepInv
  BY DEF IInv, TypeOK, ThreadTypes
<1> USE DEF Goto, Return, Call, KeepInv
<1>1. ASSUME NEW t \in Threads, PushStep(t) PROVE KeepInv'
  <2>1. CASE PushNotify(t)
    BY <1>0, <2>1 DEF PushNotify, Waiters
  <2> QED
    BY <1>0, <1>1, <2>1
       DEF PushStep, PushAlloc, PushThrow, PushLock, PushFill, PushAdvance
<1>2. ASSUME NEW t \in Threads, LockHead(t) \/ WakeSpuriously(t) \/ PopStep(t) PROVE KeepInv'
  BY <1>0, <1>2
     DEF LockHead, WakeSpuriously, PopStep, WaitCheck, WaitBlock, TryCheck, PopUnlink, PopRead,
         PopThrow
<1>3. ASSUME NEW t \in Threads, QueryStep(t) PROVE KeepInv'
  BY <1>0, <1>3 DEF QueryStep, EmptyCheck, SizeSnap, SizeWalk, SizeReturn
<1>4. CASE NewCall
  BY <1>0, <1>4 DEF NewCall, PushCall, PopCall, QueryCall, DtorCall
<1>5. CASE DtorDelete \/ UNCHANGED vars
  BY <1>0, <1>5 DEF DtorDelete, vars
<1> QED
  BY <1>1, <1>2, <1>3, <1>4, <1>5 DEF Next, Step

------------------------------------------------------------------------------
(* The invariant. *)

\* One dummy, no item, and every thread idle.
LEMMA InvStarts == Init => IInv
<1> SUFFICES ASSUME Init PROVE IInv
  OBVIOUS
<1>1. PICK dummy \in Addr :
        /\ head = dummy /\ tail = dummy /\ live = {dummy}
        /\ nodes = [a \in Addr |-> [data |-> NoItem, next |-> None,
                                    serial |-> IF a = dummy THEN 1 ELSE 0]]
        /\ head_mutex = None /\ tail_mutex = None
        /\ pc = [t \in Threads |-> "idle"]
        /\ op = [t \in Threads |-> "none"]
        /\ value = [t \in Threads |-> NoItem]
        /\ own = [t \in Threads |-> None]
        /\ snap_tail = [t \in Threads |-> None] /\ cur = [t \in Threads |-> None]
        /\ count = [t \in Threads |-> 0] /\ answer = [t \in Threads |-> NoAnswer]
        /\ entered = << >> /\ taken = << >>
        /\ got = [t \in Threads |-> << >>] /\ dropped = {}
  BY DEF Init
<1>2. Pushed = 0 /\ Popped = 0
  BY <1>1 DEF Pushed, Popped
<1>3. \A a \in Addr : /\ Ser(a) = IF a = dummy THEN 1 ELSE 0
                      /\ Nxt(a) = None /\ Dat(a) = NoItem
  BY <1>1 DEF Ser, Nxt, Dat
<1>4. ~Gone /\ ~Advancing /\ \A t \in Threads : pc[t] = "idle"
  BY <1>1 DEF Gone, Advancing
<1>5. First = 1 /\ Last = 1
  BY <1>1, <1>2, <1>3, <1>4, NoneAssumption DEF First, Last
<1>6. TypeOK
  <2>1. /\ NoItem \in Item /\ 0 \in 0 .. MaxItems + 1 /\ 1 \in 0 .. MaxItems + 1
        /\ 0 \in 0 .. MaxItems
    BY ItemsAssumption DEF Item
  <2>2. MemoryTypes
    BY <1>1, <2>1 DEF MemoryTypes
  <2>3. ThreadTypes
    BY <1>1, <2>1 DEF ThreadTypes, Labels
  <2>4. HistoryTypes
    BY <1>1 DEF HistoryTypes
  <2> QED
    BY <2>2, <2>3, <2>4 DEF TypeOK
<1>7. MutexInv
  BY <1>1, <1>4, NoneAssumption DEF MutexInv, TailLabels, HeadLabels
<1>8. CountInv
  <2>1. Pushing = {}
    BY <1>4 DEF Pushing
  <2>2. Cardinality(Pushing) = 0
    BY <2>1, FS_EmptySet
  <2> QED
    BY <1>2, <2>1, <2>2, ItemsAssumption DEF CountInv
<1>9. ChainInv
  <2>1. \A a, b \in Addr : Ser(a) = Ser(b) /\ Ser(a) >= 1 => a = b
    BY <1>3
  <2>2. \A k \in First .. Last : \E a \in Addr : Ser(a) = k
    BY <1>3, <1>5
  <2> QED
    BY <1>1, <1>2, <1>3, <1>4, <1>5, <2>1, <2>2 DEF ChainInv
<1>10. LiveInv
  BY <1>1, <1>3, <1>5 DEF LiveInv
<1>11. OwnInv
  BY <1>4 DEF OwnInv, DetachedLabels
<1>12. DataInv
  BY <1>2, <1>4 DEF DataInv
<1>13. GotInv
  BY <1>1, <1>2, <1>4 DEF GotInv, GotPopped, GotOrdered, GotBeforeRead
<1>14. HolderInv /\ WalkInv /\ KeepInv
  BY <1>1, <1>2, <1>4 DEF HolderInv, WalkInv, KeepInv
<1> QED
  BY <1>6, <1>7, <1>8, <1>9, <1>10, <1>11, <1>12, <1>13, <1>14 DEF IInv, ListInv

\* The invariant is inductive.
LEMMA InvNext == ASSUME IInv, [Next]_vars PROVE IInv'
BY TypesHold, MutexHolds, CountHolds, ListHolds, WalkHolds, KeepHolds DEF IInv

\* The inductive invariant, from which everything below follows.
THEOREM Invariant == Spec => []IInv
BY InvStarts, InvNext, PTL DEF Spec

\* Every variable keeps its type: no count, serial or answer leaves its range,
\* however pushes, pops, queries and the destructor interleave.
THEOREM TypeCorrect == Spec => []TypeOK
<1>1. IInv => TypeOK
  BY DEF IInv
<1> QED
  BY <1>1, Invariant, PTL

\* impl.hpp 69-73: for any number of threads, nodes are used only by those who may.
THEOREM NodesStaySafe == Spec => []NodesAreSafe
<1>1. ASSUME IInv PROVE NodesAreSafe
  <2> SUFFICES ASSUME NEW t \in Threads
               PROVE  /\ pc[t] \in {"fill", "advance"} => {tail, own[t]} \subseteq live
                      /\ pc[t] = "unlink" => head \in live /\ head # tail
                      /\ pc[t] = "walk" /\ cur[t] # snap_tail[t] =>
                           cur[t] \in live /\ cur[t] # tail
                      /\ pc[t] = "read" => /\ own[t] \in live /\ own[t] # tail
                                           /\ \A u \in Threads \ {t} : own[u] # own[t]
    BY DEF NodesAreSafe
  <2>1. ASSUME NEW a \in Addr, ~Gone, Ser(a) >= Popped + 1 PROVE a \in live
    BY <1>1, <2>1, Ends, Parts DEF LiveInv
  <2>2. ~Gone => Ser(tail) = Pushed + 1 /\ tail \in Addr /\ tail \in live
    BY <1>1, <2>1, Ends, Numbers
  <2>3. pc[t] = "fill" => own[t] \in live /\ tail \in live
    BY <1>1, <2>2, AtFill, AtWork
  <2>4. ASSUME pc[t] = "advance" PROVE own[t] \in live /\ tail \in live
    <3>1. own[t] \in Addr /\ Ser(own[t]) = Pushed + 2 /\ ~Gone
      BY <1>1, <2>4, AtAdvance, AtWork
    <3> QED
      BY <1>1, <2>1, <2>2, <3>1, Numbers
  <2>5. pc[t] = "unlink" => head \in live /\ head # tail
    BY <1>1, AtUnlink
  <2>6. ASSUME pc[t] = "walk", cur[t] # snap_tail[t] PROVE cur[t] \in live /\ cur[t] # tail
    <3>1. /\ snap_tail[t] \in Addr /\ cur[t] \in Addr
          /\ Popped + 1 <= Ser(cur[t]) /\ Ser(cur[t]) <= Ser(snap_tail[t])
          /\ Ser(snap_tail[t]) <= Pushed + 1
      BY <1>1, <2>6 DEF IInv, WalkInv
    <3>2. Ser(cur[t]) # Ser(snap_tail[t])
      BY <1>1, <2>6, <3>1, Numbers, Parts DEF ChainInv
    <3>3. ~Gone
      BY <1>1, <2>6, AtWork
    <3>4. Ser(cur[t]) < Ser(tail)
      BY <1>1, <2>2, <3>1, <3>2, <3>3, Numbers
    <3>5. cur[t] # tail
      BY <1>1, <2>2, <3>3, <3>4, Numbers
    <3> QED
      BY <1>1, <2>1, <3>1, <3>3, <3>5, Numbers
  <2>7. ASSUME pc[t] = "read"
        PROVE  own[t] \in live /\ own[t] # tail /\ \A u \in Threads \ {t} : own[u] # own[t]
    <3>1. own[t] \in live /\ own[t] \in Addr /\ Ser(own[t]) <= Popped
      BY <1>1, <2>7, Numbers, Parts DEF OwnInv
    <3>2. ~Gone
      BY <1>1, <2>7, AtWork
    <3>3. own[t] # tail
      BY <1>1, <2>2, <3>1, <3>2, Numbers
    <3>4. ASSUME NEW u \in Threads \ {t} PROVE own[u] # own[t]
      <4>1. CASE pc[u] \in DetachedLabels
        BY <1>1, <2>7, <4>1, Parts DEF OwnInv, DetachedLabels
      <4>2. CASE pc[u] = "advance"
        <5>1. own[u] \in Addr /\ Ser(own[u]) = Pushed + 2
          BY <1>1, <4>2, AtAdvance
        <5> QED
          BY <1>1, <3>1, <5>1, Numbers
      <4>3. CASE pc[u] \notin {"lock_tail", "fill", "advance", "read"}
        BY <1>1, <3>1, <4>3, NoneAssumption DEF IInv, KeepInv
      <4> QED
        BY <4>1, <4>2, <4>3 DEF DetachedLabels
    <3> QED
      BY <3>1, <3>3, <3>4
  <2> QED
    BY <2>3, <2>4, <2>5, <2>6, <2>7
<1> QED
  BY <1>1, Invariant, PTL

\* The nodes that no thread holds are the list, one for each serial.
LEMMA LinkedNodes ==
  ASSUME IInv
  PROVE  /\ live \ Detached = {a \in Addr : Ser(a) >= First}
         /\ {Ser(a) : a \in live \ Detached} = First .. Last
<1>1. ASSUME NEW a \in Detached PROVE ~(a \in Addr /\ Ser(a) >= First)
  <2>1. PICK u \in Threads : pc[u] \in DetachedLabels /\ a = own[u]
    BY DEF Detached, DetachedLabels
  <2>2. Ser(a) <= Popped
    BY <2>1, Numbers, Parts DEF OwnInv, DetachedLabels
  <2>3. a \in Addr
    BY <2>1, Numbers, Parts DEF OwnInv, DetachedLabels
  <2> QED
    BY <2>2, <2>3, Numbers
<1>2. live \ Detached = {a \in Addr : Ser(a) >= First}
  BY <1>1, Numbers, Parts DEF LiveInv
<1>3. \A a \in Addr : Ser(a) >= First => Ser(a) \in First .. Last
  BY Numbers
<1>4. ASSUME NEW k \in First .. Last PROVE \E a \in live \ Detached : Ser(a) = k
  <2>1. PICK a \in Addr : Ser(a) = k
    BY Parts DEF ChainInv
  <2>2. Ser(a) >= First
    BY <2>1, Numbers
  <2> QED
    BY <1>2, <2>1, <2>2
<1> QED
  BY <1>2, <1>3, <1>4

\* defs.hpp 20-24: next leads from head through the items in their order to tail.
THEOREM ChainIsIntact == Spec => []ListIsChain
<1>1. ASSUME IInv, \A t \in Threads : pc[t] # "destroy" PROVE ListIsChain
  <2> DEFINE Linked == live \ Detached
  <2>1. ~Gone
    BY <1>1 DEF Gone
  <2>2. /\ head \in Addr /\ Ser(head) = Popped + 1 /\ Ser(tail) = Pushed + 1 /\ tail \in Addr
        /\ First = Popped + 1
    BY <1>1, <2>1, Ends, Numbers
  <2>3. Linked = {a \in Addr : Ser(a) >= First} /\ {Ser(a) : a \in Linked} = First .. Last
    BY <1>1, LinkedNodes
  <2>4. head \in Linked /\ tail \in Linked
    BY <1>1, <2>2, <2>3, Numbers
  <2>5. Last = IF \E t \in Threads : pc[t] = "advance" THEN Ser(tail) + 1 ELSE Ser(tail)
    BY <1>1, <2>2, Numbers DEF Last, Advancing
  <2>6. ASSUME NEW a \in Linked, NEW b \in Linked PROVE Ser(b) = Ser(a) + 1 <=> Nxt(a) = b
    <3>1. a \in Addr /\ b \in Addr /\ Ser(a) >= First /\ Ser(b) <= Last
      BY <1>1, <2>3, Numbers
    <3>2. Ser(a) = Last => Nxt(a) = None
      BY <1>1, <3>1, Parts DEF ChainInv
    <3>3. Ser(a) # Last => Nxt(a) \in Addr /\ Ser(Nxt(a)) = Ser(a) + 1
      BY <1>1, <3>1, Parts DEF ChainInv
    <3>4. ASSUME Ser(b) = Ser(a) + 1 PROVE Nxt(a) = b
      <4>1. Ser(a) # Last
        BY <1>1, <3>1, <3>4, Numbers
      <4>2. Ser(Nxt(a)) = Ser(b) /\ Nxt(a) \in Addr /\ Ser(b) >= 1
        BY <1>1, <3>1, <3>3, <3>4, <4>1, Numbers
      <4> QED
        BY <1>1, <3>1, <4>2, Parts DEF ChainInv
    <3>5. ASSUME Nxt(a) = b PROVE Ser(b) = Ser(a) + 1
      BY <3>1, <3>2, <3>3, <3>5, NoneAssumption
    <3> QED
      BY <3>4, <3>5
  <2> QED
    BY <2>2, <2>3, <2>4, <2>5, <2>6 DEF ListIsChain, Ser, Nxt, Popped, Pushed
<1>2. IInv => ListIsChain
  BY <1>1 DEF ListIsChain
<1> QED
  BY <1>2, Invariant, PTL

\* One node per item and the dummy when all calls have returned, also after
\* exceptions; none at all after the destructor.
THEOREM NodesAreCounted == Spec => []NodeAccounting
<1>1. ASSUME IInv, \A t \in Threads : pc[t] = "idle"
      PROVE  Cardinality(live) = Pushed - Popped + 1
  <2> DEFINE Serials == Popped + 1 .. Pushed + 1
             g == [k \in Serials |-> CHOOSE a \in live : Ser(a) = k]
  <2>1. ~Gone /\ ~Advancing /\ Detached = {}
    BY <1>1 DEF Gone, Advancing, Detached
  <2>2. First = Popped + 1 /\ Last = Pushed + 1
    BY <1>1, <2>1, Ends DEF Last
  <2>3. live = {a \in Addr : Ser(a) >= First} /\ {Ser(a) : a \in live} = Serials
    BY <1>1, <2>1, <2>2, LinkedNodes
  <2>4. g \in [Serials -> live] /\ \A k \in Serials : Ser(g[k]) = k
    BY <2>3
  <2>5. \A a \in live : \E k \in Serials : g[k] = a
    <3> SUFFICES ASSUME NEW a \in live PROVE g[Ser(a)] = a /\ Ser(a) \in Serials
      OBVIOUS
    <3>1. Ser(a) \in Serials /\ Ser(a) >= 1 /\ a \in Addr
      BY <1>1, <2>3, Numbers
    <3>2. g[Ser(a)] \in Addr /\ Ser(g[Ser(a)]) = Ser(a)
      BY <1>1, <2>4, <3>1, Numbers
    <3> QED
      BY <1>1, <3>1, <3>2, Parts DEF ChainInv
  <2>6. g \in Bijection(Serials, live)
    <3>1. \A j, k \in Serials : g[j] = g[k] => j = k
      BY <2>4
    <3> QED
      BY <2>4, <2>5, <3>1, Fun_IsBij
  <2>7. IsFiniteSet(Serials) /\ Cardinality(Serials) = Pushed - Popped + 1
    <3>1. /\ Popped + 1 \in Int /\ Pushed + 1 \in Int /\ ~(Popped + 1 > Pushed + 1)
          /\ (Pushed + 1) - (Popped + 1) + 1 = Pushed - Popped + 1
      BY <1>1, Numbers
    <3> QED
      BY <3>1, FS_Interval
  <2>8. Cardinality(live) = Cardinality(Serials)
    BY <2>6, <2>7, FS_Bijection DEF ExistsBijection
  <2> QED
    BY <2>7, <2>8
<1>2. ASSUME IInv, head = None PROVE live = {}
  <2>1. Gone
    BY <1>2, NoneAssumption, Parts DEF ChainInv
  <2>2. \A t \in Threads : pc[t] = "destroy"
    BY <1>2, <2>1, Parts DEF MutexInv
  <2>3. Detached = {} /\ First = Pushed + 2 /\ Last = Pushed + 1
    BY <1>2, <2>2 DEF Detached, First, Last, Advancing
  <2>4. \A a \in live : a \in Addr /\ Ser(a) >= Pushed + 2 /\ Ser(a) <= Pushed + 1
    BY <1>2, <2>3, Numbers, Parts DEF LiveInv
  <2> QED
    BY <1>2, <2>4, Numbers
<1>3. IInv => NodeAccounting
  BY <1>1, <1>2 DEF NodeAccounting, Pushed, Popped
<1> QED
  BY <1>3, Invariant, PTL

\* The links and the number of nodes are right together.
THEOREM ListStaysIntact == Spec => []ListIsIntact
<1>1. ListIsChain /\ NodeAccounting => ListIsIntact
  BY DEF ListIsIntact
<1> QED
  BY <1>1, ChainIsIntact, NodesAreCounted, PTL

\* test_concurrent.cpp 4-21: of every item that has left the queue there is exactly
\* one trace, with a consumer, with a running pop or lost to an exception.
THEOREM ItemsGoOnce == Spec => []EachItemOnce
<1>1. ASSUME IInv, NEW i \in 1 .. Pushed
      PROVE  Cardinality(Holders(entered[i])) = IF i <= Popped THEN 1 ELSE 0
  <2>1. CASE i <= Popped
    <3>1. PICK h : Holders(entered[i]) = {h}
      BY <1>1, <2>1, Parts DEF HolderInv
    <3> QED
      BY <2>1, <3>1, FS_Singleton
  <2>2. CASE ~(i <= Popped)
    <3>1. Holders(entered[i]) = {}
      BY <1>1, <2>2, Parts DEF HolderInv
    <3> QED
      BY <2>2, <3>1, FS_EmptySet
  <2> QED
    BY <2>1, <2>2
<1>2. IInv => EachItemOnce
  BY <1>1 DEF EachItemOnce, Pushed, Popped
<1> QED
  BY <1>2, Invariant, PTL

\* Each consumer receives the items of one producer in the order of its pushes,
\* however many consumers read outside the lock.
THEOREM ProducersInOrder == Spec => []ProducerOrder
<1>1. ASSUME IInv, NEW c \in Threads, NEW j \in 1 .. Len(got[c]), NEW i \in 1 .. j - 1,
             got[c][i][1] = got[c][j][1]
      PROVE  got[c][i][2] < got[c][j][2]
  <2>1. i \in 1 .. Len(got[c])
    BY <1>1 DEF IInv, TypeOK, HistoryTypes
  <2>2. PICK m \in i .. Popped : got[c][i] = entered[m]
    BY <1>1, <2>1, Parts DEF GotPopped
  <2>3. PICK n \in j .. Popped : got[c][j] = entered[n]
    BY <1>1, Parts DEF GotPopped
  <2>4. m \in 1 .. Popped /\ n \in 1 .. Popped /\ m \in 1 .. Pushed /\ n \in 1 .. Pushed
    BY <1>1, <2>1, <2>2, <2>3, Numbers
  <2>5. m < n
    BY <1>1, <2>2, <2>3, <2>4, Parts, Zenon DEF GotOrdered
  <2> QED
    BY <1>1, <2>2, <2>3, <2>4, <2>5, Parts DEF CountInv
<1>2. IInv => ProducerOrder
  BY <1>1 DEF ProducerOrder
<1> QED
  BY <1>2, Invariant, PTL

\* A mutex that is held has an owner who can go on, or waits for one that can.
LEMMA SomeoneCanGoOn ==
  ASSUME IInv, NEW t \in Threads, pc[t] \notin {"idle", "waiting", "destroy"}
  PROVE  \E u \in Threads : CanGoOn(u)
<1>1. /\ tail_mutex \in Threads \cup {None} /\ head_mutex \in Threads \cup {None}
      /\ \A u \in Threads : pc[u] \in TailLabels <=> tail_mutex = u
      /\ \A u \in Threads : pc[u] \in HeadLabels <=> head_mutex = u
  BY DEF IInv, TypeOK, MemoryTypes, MutexInv
<1>2. CASE tail_mutex # None
  <2>1. pc[tail_mutex] \in {"fill", "advance"}
    BY <1>1, <1>2 DEF TailLabels
  <2> QED
    BY <1>1, <1>2, <2>1 DEF CanGoOn, Blocked
<1>3. CASE tail_mutex = None /\ head_mutex # None
  <2>1. pc[head_mutex] \in {"get_tail", "block", "unlink", "walk"}
    BY <1>1, <1>3 DEF HeadLabels
  <2> QED
    BY <1>1, <1>3, <2>1 DEF CanGoOn, Blocked
<1>4. CASE tail_mutex = None /\ head_mutex = None
  BY <1>4 DEF CanGoOn, Blocked
<1> QED
  BY <1>2, <1>3, <1>4

\* The two locks, taken in one order, never stop all of any number of threads:
\* if a call is running that does not wait for an item, some thread can go on.
THEOREM NeverDeadlocked == Spec => []NoDeadlock
<1>1. IInv => NoDeadlock
  BY SomeoneCanGoOn DEF NoDeadlock
<1> QED
  BY <1>1, Invariant, PTL

\* impl.hpp 166-169: what size() counts while producers go on, is the number of
\* items at the moment of its get_tail; empty() is exact.
THEOREM QueriesAreTrue == Spec => QueryIsSnapshot
<1> DEFINE A(t) == answer'[t] # answer[t] /\ answer'[t] # NoAnswer =>
                     IF op[t] = "size"
                       THEN /\ answer'[t] = nodes[snap_tail[t]].serial - nodes[head].serial
                            /\ answer'[t] \in 0 .. Len(entered) - Len(taken)
                       ELSE answer'[t] = 1 <=> Len(entered) = Len(taken)
<1>1. ASSUME IInv, [Next]_vars PROVE \A t \in Threads : A(t)
  <2>0. answer \in [Threads -> 0 .. MaxItems \cup {NoAnswer}]
    BY <1>1 DEF IInv, TypeOK, ThreadTypes
  <2>1. ASSUME NEW t \in Observers, NEW o \in QueryOps, QueryCall(t, o)
        PROVE  \A u \in Threads : A(u)
    BY <2>0, <2>1 DEF QueryCall, Threads
  <2>2. ASSUME NEW t \in Threads, EmptyCheck(t) PROVE \A u \in Threads : A(u)
    <3>1. /\ pc[t] = "get_tail" /\ op[t] = "empty"
          /\ answer' = [answer EXCEPT ![t] = IF head = tail THEN 1 ELSE 0]
      BY <2>2 DEF EmptyCheck
    <3>2. head = tail <=> Popped = Pushed
      BY <1>1, <3>1, AtWork, Ends, Numbers
    <3>3. A(t)
      BY <2>0, <3>1, <3>2 DEF Pushed, Popped
    <3>4. \A u \in Threads \ {t} : A(u)
      BY <2>0, <3>1
    <3> QED
      BY <3>3, <3>4
  <2>3. ASSUME NEW t \in Threads, SizeReturn(t) PROVE \A u \in Threads : A(u)
    <3>1. /\ pc[t] = "walk" /\ cur[t] = snap_tail[t]
          /\ answer' = [answer EXCEPT ![t] = count[t]]
      BY <2>3 DEF SizeReturn
    <3>2. op[t] = "size" /\ ~Gone
      BY <1>1, <3>1, AtWork DEF IInv, MutexInv
    <3>3. /\ cur[t] \in Addr /\ Popped + 1 <= Ser(cur[t]) /\ Ser(cur[t]) <= Pushed + 1
          /\ count[t] = Ser(cur[t]) - Popped - 1
      BY <1>1, <3>1 DEF IInv, WalkInv
    <3>4. Ser(head) = Popped + 1
      BY <1>1, <3>2, Ends
    <3>5. count[t] = Ser(cur[t]) - Ser(head) /\ count[t] \in 0 .. Pushed - Popped
      BY <1>1, <3>3, <3>4, Numbers
    <3>6. A(t)
      BY <2>0, <3>1, <3>2, <3>5 DEF Ser, Pushed, Popped
    <3>7. \A u \in Threads \ {t} : A(u)
      BY <2>0, <3>1
    <3> QED
      BY <3>6, <3>7
  <2>4. CASE answer' = answer
    BY <2>4
  <2>5. NewCall => answer' = answer \/ \E t \in Observers, o \in QueryOps : QueryCall(t, o)
    BY DEF NewCall, PushCall, PopCall, DtorCall, queryVars
  <2>6. ASSUME NEW t \in Threads, Step(t) \/ WakeSpuriously(t)
        PROVE  answer' = answer \/ EmptyCheck(t) \/ SizeReturn(t)
    BY <2>6 DEF Step, WakeSpuriously, LockHead, PushStep, PushAlloc, PushThrow, PushLock,
                PushFill, PushAdvance, PushNotify, PopStep, WaitCheck, WaitBlock, TryCheck,
                PopUnlink, PopRead, PopThrow, QueryStep, SizeSnap, SizeWalk, queryVars
  <2>7. DtorDelete \/ UNCHANGED vars => answer' = answer
    BY DEF DtorDelete, vars, queryVars
  <2> QED
    BY <1>1, <2>1, <2>2, <2>3, <2>4, <2>5, <2>6, <2>7 DEF Next
<1>2. IInv /\ [Next]_vars => [\A t \in Threads : A(t)]_vars
  BY <1>1
<1> QED
  BY <1>2, Invariant, PTL DEF Spec, QueryIsSnapshot
------------------------------------------------------------------------------
(* Steps run out. *)

\* A step of one thread only, to a lower stage.
LEMMA OneDescends ==
  ASSUME IInv, NEW t \in Threads, NEW l \in Labels, pc' = [pc EXCEPT ![t] = l],
         l # pc[t], Stage(t)' < Stage(t)
  PROVE  /\ pc'[t] # pc[t]
         /\ \A u \in Threads : pc'[u] # pc[u] => Stage(u)' < Stage(t)
BY DEF IInv, TypeOK, ThreadTypes

\* A step of push.
LEMMA PushDescends ==
  ASSUME IInv, NEW t \in Threads, PushStep(t)
  PROVE  /\ pc'[t] # pc[t]
         /\ \A u \in Threads : pc'[u] # pc[u] => Stage(u)' < Stage(t)
<1>0. pc \in [Threads -> Labels]
  BY DEF IInv, TypeOK, ThreadTypes
<1>1. ASSUME NEW l \in Labels, pc' = [pc EXCEPT ![t] = l], <<pc[t], l>> \in
             {<<"alloc", "lock_tail">>, <<"alloc", "idle">>, <<"lock_tail", "fill">>,
              <<"fill", "advance">>, <<"advance", "notify">>, <<"notify", "idle">>}
      PROVE  /\ pc'[t] # pc[t]
             /\ \A u \in Threads : pc'[u] # pc[u] => Stage(u)' < Stage(t)
  <2>1. pc'[t] = l
    BY <1>0, <1>1
  <2>2. l # pc[t] /\ Stage(t)' < Stage(t)
    BY <1>1, <2>1 DEF Stage
  <2> QED
    BY <1>1, <2>2, OneDescends
<1> USE DEF Labels
<1>2. CASE \E a \in Addr : PushAlloc(t, a)
  BY <1>1, <1>2 DEF PushAlloc, Goto
<1>3. CASE PushThrow(t)
  BY <1>1, <1>3 DEF PushThrow, Return, Goto
<1>4. CASE PushLock(t)
  BY <1>1, <1>4 DEF PushLock, Goto
<1>5. CASE PushFill(t)
  BY <1>1, <1>5 DEF PushFill, Goto
<1>6. CASE PushAdvance(t)
  BY <1>1, <1>6 DEF PushAdvance, Goto
<1>7. CASE PushNotify(t)
  <2>1. CASE Waiters = {}
    BY <1>1, <1>7, <2>1 DEF PushNotify, Goto
  <2>2. CASE Waiters # {}
    <3>1. PICK w \in Waiters : pc' = [pc EXCEPT ![t] = "idle", ![w] = "lock_head"]
      BY <1>7, <2>2 DEF PushNotify
    <3>2. pc[t] = "notify" /\ w \in Threads /\ w # t
      BY <1>7 DEF PushNotify, Waiters
    <3>3. /\ pc'[t] = "idle" /\ pc'[w] = "lock_head"
          /\ \A u \in Threads \ {t, w} : pc'[u] = pc[u]
      BY <1>0, <3>1, <3>2
    <3>4. Stage(t) = 6 /\ Stage(t)' = 0 /\ Stage(w)' = 5
      BY <3>2, <3>3 DEF Stage
    <3> QED
      BY <3>2, <3>3, <3>4
  <2> QED
    BY <2>1, <2>2
<1> QED
  BY <1>1, <1>2, <1>3, <1>4, <1>5, <1>6, <1>7 DEF PushStep

\* A step of a pop, of empty(), or of size() outside its walk.
LEMMA PopDescends ==
  ASSUME IInv, NEW t \in Threads,
         LockHead(t) \/ PopStep(t) \/ EmptyCheck(t) \/ SizeSnap(t) \/ SizeReturn(t)
  PROVE  /\ pc'[t] # pc[t]
         /\ \A u \in Threads : pc'[u] # pc[u] => Stage(u)' < Stage(t)
<1> DEFINE Move == {<<"lock_head", "get_tail">>, <<"get_tail", "unlink">>,
                    <<"get_tail", "block">>, <<"get_tail", "idle">>, <<"get_tail", "walk">>,
                    <<"block", "waiting">>, <<"unlink", "read">>, <<"read", "idle">>,
                    <<"walk", "idle">>}
<1>1. PICK l \in Labels : pc' = [pc EXCEPT ![t] = l] /\ <<pc[t], l>> \in Move
  <2> USE DEF Labels, Goto, Return
  <2>1. CASE LockHead(t)
    BY <2>1 DEF LockHead
  <2>2. CASE WaitCheck(t)
    BY <2>2 DEF WaitCheck
  <2>3. CASE WaitBlock(t)
    BY <2>3 DEF WaitBlock
  <2>4. CASE TryCheck(t)
    BY <2>4 DEF TryCheck
  <2>5. CASE PopUnlink(t)
    BY <2>5 DEF PopUnlink
  <2>6. CASE PopRead(t) \/ PopThrow(t)
    BY <2>6 DEF PopRead, PopThrow
  <2>7. CASE EmptyCheck(t)
    BY <2>7 DEF EmptyCheck
  <2>8. CASE SizeSnap(t)
    BY <2>8 DEF SizeSnap
  <2>9. CASE SizeReturn(t)
    BY <2>9 DEF SizeReturn
  <2> QED
    BY <2>1, <2>2, <2>3, <2>4, <2>5, <2>6, <2>7, <2>8, <2>9 DEF PopStep
<1>2. pc'[t] = l
  BY <1>1 DEF IInv, TypeOK, ThreadTypes
<1>3. l # pc[t] /\ Stage(t)' < Stage(t)
  BY <1>1, <1>2 DEF Stage
<1> QED
  BY <1>1, <1>3, OneDescends

\* A step of a walk.
LEMMA WalkAdvances ==
  ASSUME IInv, NEW t \in Threads, SizeWalk(t)
  PROVE  pc' = pc /\ pc[t] = "walk" /\ Ahead(t)' \in 0 .. Ahead(t) - 1
<1>1. /\ pc[t] = "walk" /\ cur[t] # snap_tail[t] /\ pc' = pc /\ snap_tail' = snap_tail
      /\ cur' = [cur EXCEPT ![t] = Nxt(cur[t])] /\ nodes' = nodes
  BY DEF SizeWalk, listVars, Nxt
<1>2. /\ snap_tail[t] \in Addr /\ cur[t] \in Addr
      /\ Popped + 1 <= Ser(cur[t]) /\ Ser(cur[t]) <= Ser(snap_tail[t])
      /\ Ser(snap_tail[t]) <= Pushed + 1
  BY <1>1 DEF IInv, WalkInv
<1>3. Ser(cur[t]) # Ser(snap_tail[t])
  BY <1>1, <1>2, Numbers, Parts DEF ChainInv
<1>4. First = Popped + 1 /\ Ser(cur[t]) < Last
  <2>1. First = Popped + 1
    BY <1>1, AtWork, Ends
  <2> QED
    BY <1>2, <1>3, <2>1, Numbers DEF Last
<1>5. Nxt(cur[t]) \in Addr /\ Ser(Nxt(cur[t])) = Ser(cur[t]) + 1
  BY <1>2, <1>4, Numbers, Parts DEF ChainInv
<1>6. cur'[t] = Nxt(cur[t])
  BY <1>1 DEF IInv, TypeOK, ThreadTypes
<1>7. /\ Ahead(t) = Ser(snap_tail[t]) - Ser(cur[t])
      /\ Ahead(t)' = Ser(snap_tail[t]) - (Ser(cur[t]) + 1)
  BY <1>1, <1>5, <1>6 DEF Ahead, Ser
<1> QED
  BY <1>1, <1>2, <1>3, <1>7, Numbers

\* test_edge.cpp 14, test_helpers.hpp 44-46: no livelock, for any number of threads.
\* With NeverDeadlocked: if nobody calls any more, all calls but those that wait for
\* an item have returned after finitely many steps, however the threads are scheduled.
THEOREM StepsRunOut == Spec => CallsRunOut
<1> DEFINE A(t) == \/ pc' = pc /\ pc[t] = "walk" /\ Ahead(t)' \in 0 .. Ahead(t) - 1
                   \/ /\ pc'[t] # pc[t]
                      /\ \A u \in Threads : pc'[u] # pc[u] => Stage(u)' < Stage(t)
<1>1. ASSUME IInv, NEW t \in Threads, Step(t) PROVE A(t)
  BY <1>1, PushDescends, PopDescends, WalkAdvances DEF Step, QueryStep
<1>2. IInv /\ [Next]_vars => [\A t \in Threads : Step(t) => A(t)]_vars
  BY <1>1
<1> QED
  BY <1>2, Invariant, PTL DEF Spec, CallsRunOut
------------------------------------------------------------------------------
(* The list with its locks is a FIFO queue. *)

Contents == [i \in 1 .. Len(entered) - Len(taken) |-> ItemAt(Len(taken) + i)]

ContentsInv ==
  ~Gone => /\ Contents \in Seq(Item) /\ Len(Contents) = Pushed - Popped
           /\ \A i \in 1 .. Pushed - Popped : Contents[i] = entered[Popped + i]

\* While the queue exists, its contents are the items entered and not yet taken.
LEMMA ContentsAre == IInv => ContentsInv
<1> SUFFICES ASSUME IInv, ~Gone PROVE ContentsInv
  BY DEF ContentsInv
<1>1. ASSUME NEW i \in 1 .. Pushed - Popped
      PROVE  ItemAt(Popped + i) = entered[Popped + i] /\ entered[Popped + i] \in Item
  <2>1. Popped + i \in First .. Last /\ Popped + i \in Popped + 1 .. Pushed
    <3>1. First = Popped + 1
      BY Ends
    <3> QED
      BY <3>1, Numbers DEF Last
  <2>2. \E a \in Addr : nodes[a].serial = Popped + i
    BY <2>1, Parts DEF ChainInv, Ser
  <2> DEFINE a == CHOOSE a \in Addr : nodes[a].serial = Popped + i
  <2>3. a \in Addr /\ Ser(a) = Popped + i
    BY <2>2 DEF Ser
  <2>4. Dat(a) = entered[Popped + i] /\ Dat(a) \in Item
    <3> HIDE DEF a
    <3> QED
      BY <2>1, <2>3, Numbers, Parts DEF DataInv
  <2> QED
    BY <2>4 DEF ItemAt, Dat
<1>2. Pushed - Popped \in Nat
  BY Numbers
<1>3. /\ DOMAIN Contents = 1 .. Pushed - Popped
      /\ \A i \in 1 .. Pushed - Popped :
           Contents[i] = entered[Popped + i] /\ Contents[i] \in Item
  BY <1>1 DEF Contents, Pushed, Popped
<1>4. Contents \in [1 .. Pushed - Popped -> Item]
  BY <1>3 DEF Contents, Pushed, Popped
<1> QED
  BY <1>2, <1>3, <1>4 DEF ContentsInv

\* The same of the next state.
LEMMA ContentsAreNext == IInv' => ContentsInv'
<1>1. IInv => ContentsInv
  BY ContentsAre
<1> QED
  BY <1>1, PTL

\* Moving tail pushes the item.
LEMMA AdvancePushes ==
  ASSUME IInv, IInv', NEW t \in Threads, PushAdvance(t)
  PROVE  /\ Contents' = Append(Contents, value[t]) /\ taken' = taken
         /\ Len(Contents) < MaxItems /\ value[t] \in Producers \X (1 .. MaxItems)
<1>1. /\ pc[t] = "advance" /\ pc' = [pc EXCEPT ![t] = "notify"] /\ taken' = taken
      /\ entered' = Append(entered, value[t]) /\ Popped' = Popped
  BY DEF PushAdvance, Goto, Popped
<1>2. /\ value[t] \in Producers \X (1 .. MaxItems) /\ value[t] \in Item /\ Pushed < MaxItems
  BY NewItem
<1>3. ~Gone /\ ~Gone'
  <2>1. ~Gone
    BY <1>1, AtWork
  <2>2. \A u \in Threads : pc'[u] # "destroy"
    BY <1>1, <2>1 DEF Gone, IInv, TypeOK, ThreadTypes
  <2> QED
    BY <2>1, <2>2 DEF Gone
<1>4. /\ Pushed' = Pushed + 1 /\ entered'[Pushed + 1] = value[t]
      /\ \A i \in 1 .. Pushed : entered'[i] = entered[i]
  BY <1>1, <1>2 DEF IInv, TypeOK, HistoryTypes, Pushed
<1>5. /\ Contents \in Seq(Item) /\ Len(Contents) = Pushed - Popped
      /\ \A i \in 1 .. Pushed - Popped : Contents[i] = entered[Popped + i]
  BY <1>3, ContentsAre DEF ContentsInv
<1>6. /\ Contents' \in Seq(Item) /\ Len(Contents') = Pushed - Popped + 1
      /\ \A i \in 1 .. Pushed - Popped + 1 : Contents'[i] = entered'[Popped + i]
  <2>1. /\ Contents' \in Seq(Item) /\ Len(Contents') = Pushed' - Popped'
        /\ \A i \in 1 .. Pushed' - Popped' : Contents'[i] = entered'[Popped' + i]
    BY <1>3, ContentsAreNext DEF ContentsInv
  <2>2. Pushed' - Popped' = Pushed - Popped + 1
    BY <1>1, <1>4, Numbers
  <2> QED
    BY <1>1, <2>1, <2>2
<1>7. /\ Append(Contents, value[t]) \in Seq(Item)
      /\ Len(Append(Contents, value[t])) = Pushed - Popped + 1
      /\ \A i \in 1 .. Pushed - Popped : Append(Contents, value[t])[i] = Contents[i]
      /\ Append(Contents, value[t])[Pushed - Popped + 1] = value[t]
  BY <1>2, <1>5, AppendProperties
<1>8. ASSUME NEW i \in 1 .. Pushed - Popped + 1 PROVE Contents'[i] = Append(Contents, value[t])[i]
  <2>1. CASE i \in 1 .. Pushed - Popped
    <3>1. Popped + i \in 1 .. Pushed
      BY <2>1, Numbers
    <3> QED
      BY <1>4, <1>5, <1>6, <1>7, <2>1, <3>1
  <2>2. CASE i = Pushed - Popped + 1
    <3>1. Popped + i = Pushed + 1
      BY <2>2, Numbers
    <3> QED
      BY <1>4, <1>6, <1>7, <2>2, <3>1
  <2>3. i \in 1 .. Pushed - Popped \/ i = Pushed - Popped + 1
    BY Numbers
  <2> QED
    BY <2>1, <2>2, <2>3
<1>9. Contents' = Append(Contents, value[t])
  BY <1>6, <1>7, <1>8, SeqEqual
<1> QED
  BY <1>1, <1>2, <1>5, <1>9, Numbers

\* Moving head pops the first item.
LEMMA UnlinkPops ==
  ASSUME IInv, IInv', NEW t \in Threads, PopUnlink(t)
  PROVE  /\ Contents # << >> /\ Contents' = Tail(Contents)
         /\ taken' = Append(taken, Head(Contents))
<1>1. /\ pc[t] = "unlink" /\ pc' = [pc EXCEPT ![t] = "read"] /\ entered' = entered
      /\ taken' = Append(taken, Dat(head))
  BY DEF PopUnlink, Goto, Dat
<1>2. ~Gone /\ Popped < Pushed /\ Dat(head) = entered[Popped + 1] /\ head \in Addr
  BY <1>1, AtUnlink
<1>3. ~Gone'
  <2>1. \A u \in Threads : pc'[u] # "destroy"
    BY <1>1, <1>2 DEF Gone, IInv, TypeOK, ThreadTypes
  <2> QED
    BY <2>1 DEF Gone
<1>4. Pushed' = Pushed /\ Popped' = Popped + 1
  <2>1. taken \in Seq(Item) /\ Dat(head) \in Item
    BY <1>2, Numbers DEF IInv, TypeOK, HistoryTypes
  <2> QED
    BY <1>1, <2>1 DEF Pushed, Popped
<1>5. /\ Contents \in Seq(Item) /\ Len(Contents) = Pushed - Popped
      /\ \A i \in 1 .. Pushed - Popped : Contents[i] = entered[Popped + i]
  BY <1>2, ContentsAre DEF ContentsInv
<1>6. /\ Contents' \in Seq(Item) /\ Len(Contents') = Pushed - Popped - 1
      /\ \A i \in 1 .. Pushed - Popped - 1 : Contents'[i] = entered[Popped + 1 + i]
  <2>1. /\ Contents' \in Seq(Item) /\ Len(Contents') = Pushed' - Popped'
        /\ \A i \in 1 .. Pushed' - Popped' : Contents'[i] = entered'[Popped' + i]
    BY <1>3, ContentsAreNext DEF ContentsInv
  <2>2. Pushed' - Popped' = Pushed - Popped - 1
    BY <1>4, Numbers
  <2> QED
    BY <1>1, <1>4, <2>1, <2>2
<1>7. Contents # << >> /\ Head(Contents) = entered[Popped + 1]
  BY <1>2, <1>5, Numbers
<1>8. /\ Tail(Contents) \in Seq(Item) /\ Len(Tail(Contents)) = Pushed - Popped - 1
      /\ \A i \in 1 .. Len(Tail(Contents)) : Tail(Contents)[i] = Contents[i + 1]
  BY <1>5, <1>7, HeadTailProperties
<1>9. ASSUME NEW i \in 1 .. Pushed - Popped - 1 PROVE Contents'[i] = Tail(Contents)[i]
  <2>1. i + 1 \in 1 .. Pushed - Popped /\ Popped + (i + 1) = Popped + 1 + i
    BY Numbers
  <2> QED
    BY <1>5, <1>6, <1>8, <2>1
<1>10. Contents' = Tail(Contents)
  BY <1>6, <1>8, <1>9, SeqEqual
<1> QED
  BY <1>1, <1>2, <1>7, <1>10

\* A step that moves neither end leaves the contents alone.
LEMMA ContentsStay ==
  ASSUME IInv, IInv', entered' = entered, taken' = taken, nodes' = nodes \/ (~Gone /\ ~Gone')
  PROVE  Contents' = Contents
<1>1. CASE nodes' = nodes
  BY <1>1 DEF Contents, ItemAt
<1>2. CASE ~Gone /\ ~Gone'
  <2>1. Pushed' = Pushed /\ Popped' = Popped
    BY DEF Pushed, Popped
  <2>2. /\ Contents \in Seq(Item) /\ Len(Contents) = Pushed - Popped
        /\ \A i \in 1 .. Pushed - Popped : Contents[i] = entered[Popped + i]
    BY <1>2, ContentsAre DEF ContentsInv
  <2>3. /\ Contents' \in Seq(Item) /\ Len(Contents') = Pushed - Popped
        /\ \A i \in 1 .. Pushed - Popped : Contents'[i] = entered[Popped + i]
    BY <1>2, <2>1, ContentsAreNext DEF ContentsInv
  <2> QED
    BY <2>2, <2>3, SeqEqual
<1> QED
  BY <1>1, <1>2

\* The list with its two mutexes is one FIFO queue, for any number of threads:
\* tail moves in a push, head moves in a pop, and nothing else shows.
THEOREM ListIsFifo == Spec => RefinesFifo
<1>1. Init => Fifo!Init
  <2> SUFFICES ASSUME Init PROVE Contents = << >> /\ taken = << >>
    BY DEF Fifo!Init, Contents
  <2>1. entered = << >> /\ taken = << >> /\ ~Gone
    BY DEF Init, Gone
  <2>2. Len(Contents) = 0 /\ Contents \in Seq(Item)
    BY <2>1, ContentsAre, InvStarts DEF ContentsInv, Pushed, Popped
  <2> QED
    BY <2>1, <2>2
<1>2. ASSUME IInv, IInv', [Next]_vars PROVE [Fifo!Next]_<<Contents, taken>>
  <2>1. ASSUME NEW t \in Threads, PushAdvance(t) PROVE [Fifo!Next]_<<Contents, taken>>
    BY <1>2, <2>1, AdvancePushes DEF Fifo!Next, Fifo!Push, Contents
  <2>2. ASSUME NEW t \in Threads, PopUnlink(t) PROVE [Fifo!Next]_<<Contents, taken>>
    BY <1>2, <2>2, UnlinkPops DEF Fifo!Next, Fifo!Pop, Contents
  <2>3. CASE entered' = entered /\ taken' = taken /\ (nodes' = nodes \/ (~Gone /\ ~Gone'))
    BY <1>2, <2>3, ContentsStay
  <2>4. ASSUME NEW t \in Threads, (\E a \in Addr : PushAlloc(t, a)) \/ PushFill(t)
        PROVE  entered' = entered /\ taken' = taken /\ ~Gone /\ ~Gone'
    <3>1. /\ pc[t] \in {"alloc", "fill"} /\ entered' = entered /\ taken' = taken
          /\ \E l \in {"lock_tail", "advance"} : pc' = [pc EXCEPT ![t] = l]
      BY <2>4 DEF PushAlloc, PushFill, Goto, histVars
    <3>2. ~Gone
      BY <1>2, <3>1, AtWork
    <3>3. \A u \in Threads : pc'[u] # "destroy"
      BY <1>2, <3>1, <3>2 DEF Gone, IInv, TypeOK, ThreadTypes
    <3> QED
      BY <3>1, <3>2, <3>3 DEF Gone
  <2>5. NewCall => entered' = entered /\ taken' = taken /\ nodes' = nodes
    BY DEF NewCall, PushCall, PopCall, QueryCall, DtorCall, histVars, listVars
  <2>6. ASSUME NEW t \in Threads, Step(t) \/ WakeSpuriously(t)
        PROVE  \/ \E a \in Addr : PushAlloc(t, a)
               \/ PushFill(t) \/ PushAdvance(t) \/ PopUnlink(t)
               \/ entered' = entered /\ taken' = taken /\ nodes' = nodes
    BY <2>6 DEF Step, WakeSpuriously, LockHead, PushStep, PushThrow, PushLock, PushNotify,
                PopStep, WaitCheck, WaitBlock, TryCheck, PopRead, PopThrow, QueryStep,
                EmptyCheck, SizeSnap, SizeWalk, SizeReturn, histVars, listVars
  <2>7. DtorDelete \/ UNCHANGED vars => entered' = entered /\ taken' = taken /\ nodes' = nodes
    BY DEF DtorDelete, vars, histVars, listVars
  <2> QED
    BY <1>2, <2>1, <2>2, <2>3, <2>4, <2>5, <2>6, <2>7 DEF Next
<1>3. IInv /\ IInv' /\ [Next]_vars => [Fifo!Next]_Fifo!fifoVars
  BY <1>2 DEF Fifo!fifoVars, Contents
<1> QED
  BY <1>1, <1>3, Invariant, PTL DEF Spec, RefinesFifo, Fifo!Spec
------------------------------------------------------------------------------
(* No wakeup is lost but between the two halves of cond.wait. *)

Sleepers == {t \in Threads : pc[t] \in {"block", "waiting"}}

\* The threads that will still look at the queue, or wake one that will.
Busy == {t \in Threads :
           \/ pc[t] = "notify"
           \/ op[t] = "wait_and_pop" /\ pc[t] \in {"lock_head", "get_tail", "unlink"}}

\* As long as somebody sleeps, there are as many such threads as there are items.
WakeInv ==
  /\ \A t \in Sleepers : op[t] = "wait_and_pop"
  /\ Sleepers # {} => Pushed - Popped <= Cardinality(Busy)

\* The busy threads are finitely many.
LEMMA BusyIsCounted == IsFiniteSet(Busy) /\ Cardinality(Busy) \in Nat
<1>1. IsFiniteSet(Busy)
  BY ThreadsAssumption, FS_Subset DEF Busy
<1> QED
  BY <1>1, FS_CardinalityType

\* Steps after which nobody new sleeps, as many threads are busy, or more, and no
\* more items are there.
LEMMA WakeFrame ==
  ASSUME IInv, IInv', WakeInv, Pushed' - Popped' <= Pushed - Popped, Busy \subseteq Busy',
         Sleepers' \subseteq Sleepers, \A t \in Sleepers' : op'[t] = op[t]
  PROVE  WakeInv'
<1>1. IsFiniteSet(Busy') /\ Cardinality(Busy') \in Nat
  BY ThreadsAssumption, FS_Subset, FS_CardinalityType DEF Busy
<1>2. Cardinality(Busy) <= Cardinality(Busy')
  BY <1>1, FS_Subset
<1>3. Pushed' \in Nat /\ Popped' \in Nat
  BY DEF IInv, TypeOK, HistoryTypes, Pushed, Popped
<1> QED
  BY <1>1, <1>2, <1>3, BusyIsCounted, Numbers DEF WakeInv

\* A thread that moves among labels at which nobody sleeps or is busy, or wakes up.
LEMMA WakeMove ==
  ASSUME IInv, IInv', WakeInv, NEW t \in Threads, NEW l, pc' = [pc EXCEPT ![t] = l],
         \A u \in Threads \ {t} : op'[u] = op[u],
         l # "block" /\ l # "waiting", t \in Busy => t \in Busy',
         Pushed' = Pushed, Popped' = Popped
  PROVE  WakeInv'
<1>1. pc'[t] = l /\ \A u \in Threads \ {t} : pc'[u] = pc[u]
  BY DEF IInv, TypeOK, ThreadTypes
<1>2. Busy \subseteq Busy'
  BY <1>1 DEF Busy
<1>3. t \notin Sleepers' /\ Sleepers' \subseteq Sleepers /\ \A u \in Sleepers' : op'[u] = op[u]
  BY <1>1 DEF Sleepers
<1> QED
  BY <1>2, <1>3, WakeFrame, Numbers

\* The steps of push: an item comes with one that is going to notify.
LEMMA WakeAfterPush ==
  ASSUME IInv, IInv', WakeInv, NEW t \in Threads, PushStep(t), WaitersBlockFirst
  PROVE  WakeInv'
<1>0. pc \in [Threads -> Labels] /\ op \in [Threads -> PopOps \cup QueryOps \cup {"push", "none"}]
  BY DEF IInv, TypeOK, ThreadTypes
<1>1. CASE \E a \in Addr : PushAlloc(t, a)
  BY <1>0, <1>1, WakeMove DEF PushAlloc, Goto, Busy, histVars, Pushed, Popped
<1>2. CASE PushThrow(t)
  BY <1>0, <1>2, WakeMove DEF PushThrow, Return, Goto, Busy, histVars, Pushed, Popped
<1>3. CASE PushLock(t)
  BY <1>0, <1>3, WakeMove DEF PushLock, Goto, Busy, histVars, Pushed, Popped
<1>4. CASE PushFill(t)
  BY <1>0, <1>4, WakeMove DEF PushFill, Goto, Busy, histVars, Pushed, Popped
<1>5. CASE PushAdvance(t)
  <2>1. /\ pc[t] = "advance" /\ pc' = [pc EXCEPT ![t] = "notify"] /\ op' = op
        /\ entered' = Append(entered, value[t]) /\ taken' = taken
    BY <1>5 DEF PushAdvance, Goto
  <2>2. Pushed' = Pushed + 1 /\ Popped' = Popped
    BY <2>1 DEF IInv, TypeOK, HistoryTypes, Pushed, Popped
  <2>3. t \notin Busy /\ Busy' = Busy \cup {t} /\ Sleepers' = Sleepers
    BY <1>0, <2>1 DEF Busy, Sleepers
  <2>4. Cardinality(Busy') = Cardinality(Busy) + 1
    BY <2>3, BusyIsCounted, FS_AddElement
  <2> QED
    BY <2>1, <2>2, <2>3, <2>4, BusyIsCounted, Numbers DEF WakeInv
<1>6. CASE PushNotify(t)
  <2>0. /\ pc[t] = "notify" /\ op' = [op EXCEPT ![t] = "none"]
        /\ Pushed' = Pushed /\ Popped' = Popped
    BY <1>6 DEF PushNotify, histVars, Pushed, Popped
  <2>1. CASE Waiters = {}
    <3>1. pc' = [pc EXCEPT ![t] = "idle"]
      BY <1>6, <2>1 DEF PushNotify, Goto
    <3>2. \A c \in Threads : pc[c] # "block"
      BY <1>0, <2>0, <2>1, <3>1 DEF WaitersBlockFirst
    <3>3. Sleepers' = {}
      BY <1>0, <2>1, <3>1, <3>2 DEF Sleepers, Waiters
    <3> QED
      BY <3>3 DEF WakeInv
  <2>2. CASE Waiters # {}
    <3>1. PICK w \in Waiters : pc' = [pc EXCEPT ![t] = "idle", ![w] = "lock_head"]
      BY <1>6, <2>2 DEF PushNotify
    <3>2. /\ w \in Sleepers /\ w \in Threads /\ pc[w] = "waiting" /\ w # t
          /\ op[w] = "wait_and_pop"
      BY <2>0, <3>1 DEF WakeInv, Waiters, Sleepers
    <3>3. /\ pc'[t] = "idle" /\ pc'[w] = "lock_head" /\ op'[t] = "none"
          /\ \A u \in Threads \ {t, w} : pc'[u] = pc[u]
          /\ \A u \in Threads \ {t} : op'[u] = op[u]
      BY <1>0, <2>0, <3>1, <3>2
    <3>4. /\ Busy' = (Busy \ {t}) \cup {w} /\ t \in Busy /\ w \notin Busy
          /\ Sleepers' = Sleepers \ {w}
      BY <2>0, <3>2, <3>3 DEF Busy, Sleepers
    <3>5. IsFiniteSet(Busy \ {t}) /\ Cardinality(Busy \ {t}) = Cardinality(Busy) - 1
      BY <3>4, BusyIsCounted, FS_RemoveElement
    <3>6. Cardinality(Busy') = Cardinality(Busy)
      <4>1. w \notin Busy \ {t}
        BY <3>4
      <4>2. Cardinality((Busy \ {t}) \cup {w}) = Cardinality(Busy \ {t}) + 1
        BY <3>5, <4>1, FS_AddElement
      <4> QED
        BY <3>4, <3>5, <4>2, BusyIsCounted
    <3>7. \A u \in Sleepers' : op'[u] = "wait_and_pop"
      <4>1. t \notin Sleepers
        BY <2>0 DEF Sleepers
      <4> QED
        BY <3>3, <3>4, <4>1 DEF WakeInv, Sleepers
    <3> QED
      BY <2>0, <3>2, <3>4, <3>6, <3>7 DEF WakeInv
  <2> QED
    BY <2>1, <2>2
<1> QED
  BY <1>1, <1>2, <1>3, <1>4, <1>5, <1>6 DEF PushStep

\* The steps of a pop: only one that finds nothing goes to sleep, and whoever takes
\* an item was counted with it, or was not needed.
LEMMA WakeAfterPop ==
  ASSUME IInv, IInv', WakeInv, NEW t \in Threads, LockHead(t) \/ PopStep(t)
  PROVE  WakeInv'
<1>0. pc \in [Threads -> Labels] /\ op \in [Threads -> PopOps \cup QueryOps \cup {"push", "none"}]
  BY DEF IInv, TypeOK, ThreadTypes
<1>1. CASE LockHead(t)
  BY <1>0, <1>1, WakeMove DEF LockHead, Goto, Busy, histVars, Pushed, Popped
<1>2. CASE WaitCheck(t)
  <2>0. pc[t] = "get_tail" /\ op[t] = "wait_and_pop" /\ op' = op
        /\ Pushed' = Pushed /\ Popped' = Popped
    BY <1>2 DEF WaitCheck, histVars, Pushed, Popped
  <2>1. CASE head # tail
    <3>1. pc' = [pc EXCEPT ![t] = "unlink"]
      BY <1>2, <2>1 DEF WaitCheck, Goto
    <3>2. t \in Busy' /\ \A u \in Threads \ {t} : op'[u] = op[u]
      BY <1>0, <2>0, <3>1 DEF Busy
    <3> QED
      BY <2>0, <3>1, <3>2, WakeMove
  <2>2. CASE head = tail
    <3>1. pc' = [pc EXCEPT ![t] = "block"]
      BY <1>2, <2>2 DEF WaitCheck, Goto
    <3>2. Popped = Pushed
      BY <2>0, <2>2, AtWork, Ends
    <3>3. Sleepers' = Sleepers \cup {t}
      BY <1>0, <3>1 DEF Sleepers
    <3>4. Cardinality(Busy') \in Nat
      BY ThreadsAssumption, FS_Subset, FS_CardinalityType DEF Busy
    <3> QED
      BY <2>0, <3>2, <3>3, <3>4, Numbers DEF WakeInv
  <2> QED
    BY <2>1, <2>2
<1>3. CASE WaitBlock(t)
  <2>1. /\ pc[t] = "block" /\ pc' = [pc EXCEPT ![t] = "waiting"] /\ op' = op
        /\ Pushed' = Pushed /\ Popped' = Popped
    BY <1>3 DEF WaitBlock, Goto, histVars, Pushed, Popped
  <2>2. Busy' = Busy /\ Sleepers' = Sleepers
    BY <1>0, <2>1 DEF Busy, Sleepers
  <2> QED
    BY <2>1, <2>2 DEF WakeInv
<1>4. CASE TryCheck(t)
  BY <1>0, <1>4, WakeMove, OpOf DEF TryCheck, Return, Goto, Busy, histVars, Pushed, Popped
<1>5. CASE PopUnlink(t)
  <2>1. /\ pc[t] = "unlink" /\ pc' = [pc EXCEPT ![t] = "read"] /\ op' = op
        /\ Pushed' = Pushed /\ taken' = Append(taken, nodes[head].data)
    BY <1>5 DEF PopUnlink, Goto, Pushed
  <2>2. Popped' = Popped + 1
    BY <2>1 DEF IInv, TypeOK, HistoryTypes, Popped
  <2>3. Sleepers' = Sleepers /\ Busy' = Busy \ {t}
    BY <1>0, <2>1 DEF Busy, Sleepers
  <2>4. Cardinality(Busy') >= Cardinality(Busy) - 1 /\ Cardinality(Busy') \in Nat
    <3>1. IsFiniteSet(Busy \ {t}) /\ Cardinality(Busy \ {t}) >= Cardinality(Busy) - 1
      BY BusyIsCounted, FS_RemoveElement
    <3>2. Cardinality(Busy \ {t}) \in Nat
      BY <3>1, FS_CardinalityType
    <3> QED
      BY <2>3, <3>1, <3>2
  <2> QED
    BY <2>1, <2>2, <2>3, <2>4, BusyIsCounted, Numbers DEF WakeInv
<1>6. CASE PopRead(t) \/ PopThrow(t)
  <2>1. /\ pc[t] = "read" /\ pc' = [pc EXCEPT ![t] = "idle"] /\ op' = [op EXCEPT ![t] = "none"]
        /\ Pushed' = Pushed /\ Popped' = Popped
    BY <1>6 DEF PopRead, PopThrow, Return, Goto, Pushed, Popped
  <2>2. \A u \in Threads \ {t} : op'[u] = op[u]
    BY <2>1, OpOf
  <2>3. t \notin Busy
    BY <2>1 DEF Busy
  <2> QED
    BY <2>1, <2>2, <2>3, WakeMove
<1> QED
  BY <1>1, <1>2, <1>3, <1>4, <1>5, <1>6 DEF PopStep

\* What the other operations do to sleepers: at most wake them.
LEMMA WakeAfterOther ==
  ASSUME IInv, IInv', WakeInv, NewCall \/ DtorDelete
                                 \/ \E t \in Threads : QueryStep(t) \/ WakeSpuriously(t)
  PROVE  WakeInv'
<1>0. pc \in [Threads -> Labels] /\ op \in [Threads -> PopOps \cup QueryOps \cup {"push", "none"}]
  BY DEF IInv, TypeOK, ThreadTypes
<1>1. ASSUME NEW t \in Threads, NEW o, NEW l \in {"alloc", "lock_head"}, Call(t, o, l),
             Pushed' = Pushed, Popped' = Popped
      PROVE  WakeInv'
  <2>1. pc[t] = "idle" /\ pc' = [pc EXCEPT ![t] = l] /\ op' = [op EXCEPT ![t] = o]
    BY <1>1 DEF Call, Goto
  <2>2. t \notin Busy /\ \A u \in Threads \ {t} : op'[u] = op[u]
    BY <2>1, OpOf DEF Busy
  <2> QED
    BY <1>1, <2>1, <2>2, WakeMove
<1>2. CASE NewCall /\ ~DtorCall
  <2>1. PICK t \in Threads, o \in {"push"} \cup PopOps \cup QueryOps, l \in {"alloc", "lock_head"} :
          Call(t, o, l) /\ Pushed' = Pushed /\ Popped' = Popped
    BY <1>2 DEF NewCall, PushCall, PopCall, QueryCall, Threads, histVars, Pushed, Popped
  <2> QED
    BY <1>1, <2>1
<1>3. CASE DtorCall
  <2>1. Sleepers' = {}
    BY <1>3 DEF DtorCall, Sleepers
  <2> QED
    BY <2>1 DEF WakeInv
<1>4. CASE DtorDelete
  <2>1. Sleepers' = Sleepers /\ Busy' = Busy /\ op' = op /\ Pushed' = Pushed /\ Popped' = Popped
    BY <1>4 DEF DtorDelete, Sleepers, Busy, histVars, Pushed, Popped
  <2> QED
    BY <2>1 DEF WakeInv
<1>5. ASSUME NEW t \in Threads, QueryStep(t) PROVE WakeInv'
  <2>1. CASE EmptyCheck(t)
    BY <1>0, <2>1, WakeMove, OpOf DEF EmptyCheck, Return, Goto, Busy, histVars, Pushed, Popped
  <2>2. CASE SizeSnap(t)
    BY <1>0, <2>2, WakeMove DEF SizeSnap, Goto, Busy, histVars, Pushed, Popped
  <2>3. CASE SizeWalk(t)
    <3>1. Sleepers' = Sleepers /\ Busy' = Busy /\ op' = op /\ Pushed' = Pushed /\ Popped' = Popped
      BY <2>3 DEF SizeWalk, Sleepers, Busy, histVars, Pushed, Popped
    <3> QED
      BY <3>1 DEF WakeInv
  <2>4. CASE SizeReturn(t)
    <3>1. /\ pc[t] = "walk" /\ pc' = [pc EXCEPT ![t] = "idle"]
          /\ op' = [op EXCEPT ![t] = "none"] /\ Pushed' = Pushed /\ Popped' = Popped
      BY <2>4 DEF SizeReturn, Return, Goto, histVars, Pushed, Popped
    <3>2. t \notin Busy /\ \A u \in Threads \ {t} : op'[u] = op[u]
      BY <3>1, OpOf DEF Busy
    <3> QED
      BY <3>1, <3>2, WakeMove
  <2> QED
    BY <1>5, <2>1, <2>2, <2>3, <2>4 DEF QueryStep
<1>6. ASSUME NEW t \in Threads, WakeSpuriously(t) PROVE WakeInv'
  <2>1. /\ pc[t] = "waiting" /\ pc' = [pc EXCEPT ![t] = "lock_head"] /\ op' = op
        /\ Pushed' = Pushed /\ Popped' = Popped
    BY <1>6 DEF WakeSpuriously, Goto, histVars, Pushed, Popped
  <2>2. t \notin Busy /\ \A u \in Threads \ {t} : op'[u] = op[u]
    BY <2>1 DEF Busy
  <2> QED
    BY <2>1, <2>2, WakeMove
<1> QED
  BY <1>2, <1>3, <1>4, <1>5, <1>6 DEF NewCall

\* Every step, as long as nobody notifies in vain between the two halves of cond.wait.
LEMMA WakeHolds ==
  ASSUME IInv, WakeInv, [Next /\ WaitersBlockFirst]_vars PROVE WakeInv'
<1>0. IInv'
  BY InvNext
<1>1. ASSUME Next, WaitersBlockFirst PROVE WakeInv'
  BY <1>0, <1>1, WakeAfterPush, WakeAfterPop, WakeAfterOther DEF Next, Step
<1>2. CASE UNCHANGED vars
  <2>1. Sleepers' = Sleepers /\ Busy' = Busy /\ op' = op /\ Pushed' = Pushed /\ Popped' = Popped
    BY <1>2 DEF vars, Sleepers, Busy, histVars, Pushed, Popped
  <2> QED
    BY <2>1 DEF WakeInv
<1> QED
  BY <1>1, <1>2

\* Nobody sleeps at the start.
LEMMA WakeStarts == Init => WakeInv
<1> SUFFICES ASSUME Init PROVE WakeInv
  OBVIOUS
<1>1. Sleepers = {}
  BY DEF Init, Sleepers
<1> QED
  BY <1>1 DEF WakeInv

\* A sleeper who is left alone has nothing to pop.
LEMMA WakeSuffices == IInv /\ WakeInv => NoLostWakeup
<1> SUFFICES ASSUME IInv, WakeInv, \A t \in Threads : pc[t] \in {"idle", "waiting"},
                    Waiters # {}
             PROVE  head = tail
  BY DEF NoLostWakeup
<1>1. ~Gone /\ Sleepers # {} /\ Busy = {}
  BY DEF Gone, Waiters, Sleepers, Busy
<1>2. Pushed <= Popped
  BY <1>1, FS_EmptySet, Numbers DEF WakeInv
<1> QED
  BY <1>1, <1>2, Ends, Numbers

\* test_edge.cpp 12-13, 44-46 and 61-62: for any number of threads and of items a
\* wakeup is lost only if some notification finds nobody while a consumer is between
\* its predicate and its blocking.  notify_one may wake any waiter, wait_and_pop may
\* compete with try_pop, T and allocations may throw, and waiters may wake for no
\* reason.
THEOREM OnlyTheGapLosesWakeups == PatientSpec => []NoLostWakeup
<1>1. Init => IInv /\ WakeInv
  BY InvStarts, WakeStarts
<1>2. (IInv /\ WakeInv) /\ [Next /\ WaitersBlockFirst]_vars => (IInv /\ WakeInv)'
  <2> SUFFICES ASSUME IInv, WakeInv, [Next /\ WaitersBlockFirst]_vars PROVE IInv' /\ WakeInv'
    OBVIOUS
  <2> QED
    BY InvNext, WakeHolds
<1> QED
  BY <1>1, <1>2, WakeSuffices, PTL DEF PatientSpec
=============================================================================
