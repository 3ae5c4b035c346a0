------------------------ MODULE LockfreeSpscBounded ------------------------
(***************************************************************************)
(* lockfree_spsc_bounded<T, Capacity>: a ring of Capacity + 1 slots, one   *)
(* producer thread "P", one consumer thread "C", two atomic indexes.       *)
(*                                                                         *)
(* One action is one access to memory that the other thread can see, with  *)
(* the thread-local work that follows it.  The indexes are C++ atomics of  *)
(* which each has one writer, so their modification order is a sequence:   *)
(* tail[n] and head[n] are the values of the n-th store (the first is the  *)
(* initial 0).  A load by the other thread may return any store that is    *)
(* not older than one it knows of, and an acquire load of a release store  *)
(* makes known all that its writer did before; a thread knows its own      *)
(* stores.  The slots are plain memory: wrote and readBy date the accesses *)
(* so that NoDataRace can say that they are ordered by happens-before.     *)
(*                                                                         *)
(* The code never looks into a T, so the item of the n-th push is n.  If T *)
(* may throw, an assignment that throws leaves both its sides as they were *)
(* (what a copy of T does), a constructor that throws leaves no T at all.  *)
(***************************************************************************)
EXTENDS Integers, Sequences

CONSTANTS Capacity,   \* the template parameter
          MaxItems,   \* bound of the model: how many pushes may succeed
          WordSize,   \* 2^w for a size_t of w bits
          MayThrow    \* whether constructing or assigning a T can throw

ASSUME CapacityAssumption == Capacity \in Nat \ {0}
ASSUME MaxItemsAssumption == MaxItems \in Nat
ASSUME WordSizeAssumption == WordSize \in Nat /\ WordSize >= 2 * (Capacity + 1)
ASSUME MayThrowAssumption == MayThrow \in BOOLEAN

VARIABLES
  \* members of the class
  head,        \* the stores to head, oldest first
  tail,        \* the stores to tail, oldest first
  arr,         \* the slots
  head_cache,  \* the producer's copy of head
  tail_cache,  \* the consumer's copy of tail
  \* the two threads
  pc, op,      \* where a thread is, and in which operation
  value,       \* the item held by the producer's current call
  loaded,      \* the head index a size() or empty() call has loaded
  answer,      \* the last answer of size() or empty() to a thread
  \* history
  got,         \* the values popped, in order
  peeked,      \* the value of a peek that no pop has followed yet
  seenHead,    \* the newest store to head that happens before P's next step
  seenTail,    \* the newest store to tail that happens before C's next step
  hcAt, tcAt,  \* which store head_cache (tail_cache) was loaded from
  wrote,       \* per slot: the store to tail that follows P's last access
  readBy       \* per slot: the store to head that follows C's last access

memVars   == <<head, tail, arr, wrote, readBy>>
prodVars  == <<value, head_cache, hcAt, seenHead>>
consVars  == <<got, peeked, tail_cache, tcAt, seenTail>>
queryVars == <<loaded, answer>>
vars == <<memVars, prodVars, consVars, queryVars, pc, op>>

Threads  == {"P", "C"}
PushOps  == {"try_push", "wait_and_push", "try_emplace"}
PopOps   == {"try_pop", "wait_and_pop", "peek"}
QueryOps == {"size", "empty"}

NoItem   == 0    \* a default-constructed or moved-from T
NoT      == -1   \* a slot in which no T is alive
NoAnswer == -1

Newest(stores) == stores[Len(stores)]
------------------------------------------------------------------------------
(* Index arithmetic and what an atomic load may do. *)

buffer_size_NoSpareSlot == Capacity

buffer_size == Capacity + 1

Slots == 0 .. buffer_size - 1

NextIdx_NoWrap(i) == i + 1

NextIdx(i) == (i + 1) % buffer_size

SizeOf_NoBias(h, t) == ((t - h) % WordSize) % buffer_size

\* size_t arithmetic: t - h wraps below zero, adding buffer_size wraps back.
SizeOf(h, t) == ((((t - h) % WordSize) + buffer_size) % WordSize) % buffer_size

EmptyOf(h, t) == h = t

\* The newest store a thread knows of after loading store k: memory_order_acquire.
AfterLoad_Relaxed(seen, k) == seen

AfterLoad(seen, k) == k

\* What std::move leaves in the parameter of a push that finds the queue full.
ValueAfterFull_MovedFrom(o) == NoItem

ValueAfterFull(o) == IF o = "wait_and_push" THEN value ELSE NoItem

Goto(t, label) == pc' = [pc EXCEPT ![t] = label]

IsFullAt(h)  == NextIdx(Newest(tail)) = h
IsEmptyAt(t) == Newest(head) = t
------------------------------------------------------------------------------
Init ==
  /\ head = <<0>> /\ tail = <<0>>
  /\ arr = [s \in Slots |-> NoItem]
  /\ head_cache = 0 /\ tail_cache = 0
  /\ pc = [t \in Threads |-> "idle"]
  /\ op = [t \in Threads |-> "none"]
  /\ value = NoItem
  /\ loaded = [t \in Threads |-> 0]
  /\ answer = [t \in Threads |-> NoAnswer]
  /\ got = << >> /\ peeked = NoItem
  /\ seenHead = 1 /\ seenTail = 1 /\ hcAt = 1 /\ tcAt = 1
  /\ wrote = [s \in Slots |-> 1]
  /\ readBy = [s \in Slots |-> 1]

Call(t, o, label) ==
  /\ pc[t] = "idle"
  /\ Goto(t, label)
  /\ op' = [op EXCEPT ![t] = o]
------------------------------------------------------------------------------
(* The producer: try_push, wait_and_push, try_emplace. *)

PushCall(o) ==
  /\ Len(tail) <= MaxItems
  /\ Call("P", o, "check")
  /\ value' = Len(tail)
  /\ UNCHANGED <<memVars, consVars, queryVars, head_cache, hcAt, seenHead>>

\* Own tail, and the cached head: the fast path.
PushCheck ==
  /\ pc["P"] = "check"
  /\ Goto("P", IF IsFullAt(head_cache) THEN "reload" ELSE "write")
  /\ UNCHANGED <<memVars, prodVars, consVars, queryVars, op>>

\* A spinning wait_and_push that keeps trusting its copy of head.
PushReload_KeepsCache(k) ==
  /\ pc["P"] = "reload"
  /\ k \in seenHead .. Len(head)
  /\ seenHead' = k
  /\ Goto("P", IF op["P"] = "wait_and_push" THEN "check" ELSE "idle")
  /\ UNCHANGED <<memVars, consVars, queryVars, op, value, head_cache, hcAt>>

\* The cached head says full: load head, and decide again.
PushReload(k) ==
  /\ pc["P"] = "reload"
  /\ k \in seenHead .. Len(head)
  /\ head_cache' = head[k]
  /\ hcAt' = k
  /\ seenHead' = AfterLoad(seenHead, k)
  /\ IF IsFullAt(head[k])
       THEN /\ Goto("P", IF op["P"] = "wait_and_push" THEN "check" ELSE "idle")
            /\ value' = ValueAfterFull(op["P"])
       ELSE /\ Goto("P", "write")
            /\ UNCHANGED value
  /\ UNCHANGED <<memVars, consVars, queryVars, op>>

\* Move the value into the slot, or construct it there (try_emplace).
PushWrite ==
  /\ pc["P"] = "write"
  /\ arr' = [arr EXCEPT ![Newest(tail)] = value]
  /\ wrote' = [wrote EXCEPT ![Newest(tail)] = Len(tail) + 1]
  /\ value' = NoItem
  /\ Goto("P", "publish")
  /\ UNCHANGED <<head, tail, readBy, head_cache, hcAt, seenHead,
                 consVars, queryVars, op>>

\* The move into the slot throws; or the constructor in the slot does, after
\* construct_at has put an end to the T that was there.
PushThrow ==
  /\ MayThrow
  /\ pc["P"] = "write"
  /\ arr' = [arr EXCEPT ![Newest(tail)] = IF op["P"] = "try_emplace" THEN NoT ELSE @]
  /\ wrote' = [wrote EXCEPT ![Newest(tail)] = Len(tail) + 1]
  /\ value' = NoItem
  /\ Goto("P", "idle")
  /\ UNCHANGED <<head, tail, readBy, head_cache, hcAt, seenHead,
                 consVars, queryVars, op>>

PushPublish ==
  /\ pc["P"] = "publish"
  /\ tail' = Append(tail, NextIdx(Newest(tail)))
  /\ Goto("P", "idle")
  /\ UNCHANGED <<head, arr, wrote, readBy, prodVars, consVars, queryVars, op>>
------------------------------------------------------------------------------
(* The consumer: try_pop, wait_and_pop, peek. *)

PopCall(o) ==
  /\ Call("C", o, "check")
  /\ UNCHANGED <<memVars, prodVars, consVars, queryVars>>

PopCheck_SkipsReload ==
  /\ pc["C"] = "check"
  /\ Goto("C", "read")
  /\ UNCHANGED <<memVars, prodVars, consVars, queryVars, op>>

PopCheck ==
  /\ pc["C"] = "check"
  /\ Goto("C", IF IsEmptyAt(tail_cache) THEN "reload" ELSE "read")
  /\ UNCHANGED <<memVars, prodVars, consVars, queryVars, op>>

\* A try_pop that answers "empty" from its copy of tail, without a load.
PopReload_KeepsCache(k) ==
  /\ pc["C"] = "reload"
  /\ k \in seenTail .. Len(tail)
  /\ seenTail' = k
  /\ Goto("C", IF op["C"] = "wait_and_pop" THEN "check" ELSE "idle")
  /\ UNCHANGED <<memVars, prodVars, queryVars, op, got, peeked, tail_cache, tcAt>>

PopReload(k) ==
  /\ pc["C"] = "reload"
  /\ k \in seenTail .. Len(tail)
  /\ tail_cache' = tail[k]
  /\ tcAt' = k
  /\ seenTail' = AfterLoad(seenTail, k)
  /\ Goto("C", IF ~IsEmptyAt(tail[k]) THEN "read"
               ELSE IF op["C"] = "wait_and_pop" THEN "check" ELSE "idle")
  /\ UNCHANGED <<memVars, prodVars, queryVars, op, got, peeked>>

\* peek copies the front slot and is done.
PeekRead_Moves ==
  /\ pc["C"] = "read" /\ op["C"] = "peek"
  /\ peeked' = arr[Newest(head)]
  /\ arr' = [arr EXCEPT ![Newest(head)] = NoItem]
  /\ readBy' = [readBy EXCEPT ![Newest(head)] = Len(head) + 1]
  /\ Goto("C", "idle")
  /\ UNCHANGED <<head, tail, wrote, got, tail_cache, tcAt, seenTail,
                 prodVars, queryVars, op>>

PeekRead ==
  /\ pc["C"] = "read" /\ op["C"] = "peek"
  /\ peeked' = arr[Newest(head)]
  /\ readBy' = [readBy EXCEPT ![Newest(head)] = Len(head) + 1]
  /\ Goto("C", "idle")
  /\ UNCHANGED <<head, tail, arr, wrote, got, tail_cache, tcAt, seenTail,
                 prodVars, queryVars, op>>

\* A pop that copies, and leaves behind in the slot what T owns.
PopRead_Copies ==
  /\ pc["C"] = "read" /\ op["C"] # "peek"
  /\ got' = Append(got, arr[Newest(head)])
  /\ readBy' = [readBy EXCEPT ![Newest(head)] = Len(head) + 1]
  /\ Goto("C", "release")
  /\ UNCHANGED <<head, tail, arr, wrote, peeked, tail_cache, tcAt, seenTail,
                 prodVars, queryVars, op>>

\* A pop moves the value out of the slot; its store to head frees the slot.
PopRead ==
  /\ pc["C"] = "read" /\ op["C"] # "peek"
  /\ got' = Append(got, arr[Newest(head)])
  /\ arr' = [arr EXCEPT ![Newest(head)] = NoItem]
  /\ readBy' = [readBy EXCEPT ![Newest(head)] = Len(head) + 1]
  /\ Goto("C", "release")
  /\ UNCHANGED <<head, tail, wrote, peeked, tail_cache, tcAt, seenTail,
                 prodVars, queryVars, op>>

\* The move or copy out of the slot throws: the item stays at the front.
PopThrow ==
  /\ MayThrow
  /\ pc["C"] = "read"
  /\ readBy' = [readBy EXCEPT ![Newest(head)] = Len(head) + 1]
  /\ Goto("C", "idle")
  /\ UNCHANGED <<head, tail, arr, wrote, consVars, prodVars, queryVars, op>>

PopRelease ==
  /\ pc["C"] = "release"
  /\ head' = Append(head, NextIdx(Newest(head)))
  /\ peeked' = NoItem
  /\ Goto("C", "idle")
  /\ UNCHANGED <<tail, arr, wrote, readBy, got, tail_cache, tcAt, seenTail,
                 prodVars, queryVars, op>>
------------------------------------------------------------------------------
(* size() and empty(), called by either thread: head first, then tail. *)

QueryCall(t, o) ==
  /\ Call(t, o, "load_head")
  /\ answer' = [answer EXCEPT ![t] = NoAnswer]
  /\ UNCHANGED <<memVars, prodVars, consVars, loaded>>

QueryHead(t, k) ==
  /\ pc[t] = "load_head"
  /\ IF t = "P"
       THEN k \in seenHead .. Len(head) /\ seenHead' = AfterLoad(seenHead, k)
       ELSE k = Len(head) /\ UNCHANGED seenHead
  /\ loaded' = [loaded EXCEPT ![t] = head[k]]
  /\ Goto(t, "load_tail")
  /\ UNCHANGED <<memVars, consVars, value, head_cache, hcAt, answer, op>>

QueryTail(t, k) ==
  /\ pc[t] = "load_tail"
  /\ IF t = "C"
       THEN k \in seenTail .. Len(tail) /\ seenTail' = AfterLoad(seenTail, k)
       ELSE k = Len(tail) /\ UNCHANGED seenTail
  /\ answer' = [answer EXCEPT ![t] =
                  IF op[t] = "size" THEN SizeOf(loaded[t], tail[k])
                  ELSE IF EmptyOf(loaded[t], tail[k]) THEN 1 ELSE 0]
  /\ Goto(t, "idle")
  /\ UNCHANGED <<memVars, prodVars, got, peeked, tail_cache, tcAt, loaded, op>>
------------------------------------------------------------------------------
PushStep == \/ PushCheck
            \/ \E k \in 1 .. Len(head) : PushReload(k)
            \/ PushWrite
            \/ PushThrow
            \/ PushPublish

PopStep == \/ PopCheck
           \/ \E k \in 1 .. Len(tail) : PopReload(k)
           \/ PeekRead
           \/ PopRead
           \/ PopThrow
           \/ PopRelease

QueryStep(t) == \/ \E k \in 1 .. Len(head) : QueryHead(t, k)
                \/ \E k \in 1 .. Len(tail) : QueryTail(t, k)

NewCall == \/ \E o \in PushOps : PushCall(o)
           \/ \E o \in PopOps : PopCall(o)
           \/ \E t \in Threads, o \in QueryOps : QueryCall(t, o)

Next == NewCall \/ PushStep \/ PopStep \/ \E t \in Threads : QueryStep(t)

Spec == Init /\ [][Next]_vars
------------------------------------------------------------------------------
Labels == {"idle", "check", "reload", "write", "publish", "read", "release",
           "load_head", "load_tail"}

\* The members of the class, the threads, and what each thread knows.
MemberTypes ==
  /\ head \in Seq(Slots) /\ Len(head) \in 1 .. MaxItems + 1
  /\ tail \in Seq(Slots) /\ Len(tail) \in 1 .. MaxItems + 1
  /\ arr \in [Slots -> NoT .. MaxItems]
  /\ wrote \in [Slots -> 1 .. MaxItems + 1]
  /\ readBy \in [Slots -> 1 .. MaxItems + 1]

ThreadTypes ==
  /\ pc \in [Threads -> Labels]
  /\ op \in [Threads -> PushOps \cup PopOps \cup QueryOps \cup {"none"}]
  /\ value \in 0 .. MaxItems
  /\ loaded \in [Threads -> Slots]
  /\ answer \in [Threads -> Slots \cup {NoAnswer}]
  /\ got \in Seq(0 .. MaxItems)
  /\ peeked \in 0 .. MaxItems

ViewTypes ==
  /\ seenHead \in 1 .. Len(head) /\ hcAt \in 1 .. seenHead
  /\ seenTail \in 1 .. Len(tail) /\ tcAt \in 1 .. seenTail
  /\ head_cache \in Slots /\ tail_cache \in Slots

TypeOK == MemberTypes /\ ThreadTypes /\ ViewTypes

\* impl.hpp 13-15 and 112-115: every access to a slot is ordered, through an
\* acquire load of the other thread's release store, after every access the
\* other thread made to that slot before.  Without it the move into or out of
\* the slot is a data race, whatever the indexes say.
NoDataRace ==
  /\ pc["P"] = "write" => readBy[Newest(tail)] <= seenHead
  /\ pc["C"] = "read" => wrote[Newest(head)] <= seenTail

\* defs.hpp 16-18: one slot is sacrificed, so at most Capacity items are in
\* the ring, including one that is being written or read; the indexes may lap
\* the ring any number of times.
WithinCapacity ==
  /\ Len(tail) - Len(head) \in 0 .. Capacity
  /\ pc["P"] \in {"write", "publish"} => Len(tail) - Len(head) < Capacity

\* impl.hpp 98-100: try_emplace constructs over the slot at tail and destroys
\* nothing first.  What is lost there is never an item, only an empty T; and if
\* a constructor that throws leaves a slot without a T, it is that spare slot,
\* which the consumer does not read, and which stays the next one to be filled.
NextSlotIsSpare ==
  /\ pc["P"] = "write" => arr[Newest(tail)] \in {NoItem, NoT}
  /\ \A s \in Slots : arr[s] = NoT => s = Newest(tail) /\ pc["P"] # "publish"

\* The two together: no push ever writes over an item that has not been taken.
NothingOverwritten == WithinCapacity /\ NextSlotIsSpare

\* No item is lost, duplicated, reordered or seen half-written: the n-th pop
\* returns what the n-th push stored.
FifoDelivery == \A n \in 1 .. Len(got) : got[n] = n

\* impl.hpp 29-31, "truly full": try_push gives up only if Capacity items are
\* in the ring as of the newest store to head that it knows of - a comparison
\* of indexes modulo buffer_size never aliases a fuller or an emptier ring.
FullIsTrue ==
  [][pc["P"] = "reload" /\ pc'["P"] = "idle"
       => Len(tail) - seenHead' = Capacity]_vars

\* impl.hpp 123-125, "truly empty": try_pop and peek give up only if they have
\* consumed every item whose publication they know of.
EmptyIsTrue ==
  [][pc["C"] = "reload" /\ pc'["C"] = "idle" => seenTail' = Len(head)]_vars

\* impl.hpp 26-31 and 121-125: neither answer is ever given from a cache alone.
AnswersAreTrue == FullIsTrue /\ EmptyIsTrue

\* How many steps are left to a call that never has to wait.
StepsLeft(label) ==
  CASE label = "check"                           -> 4
    [] label = "reload"                          -> 3
    [] label \in {"write", "read", "load_head"}  -> 2
    [] label \in {"publish", "release", "load_tail"} -> 1
    [] OTHER                                     -> 0

\* impl.hpp 9, 42 and 108, "wait-free", "lock-free (spins)": every step brings its
\* call nearer to the end, whatever the other thread does between two of them.  The
\* one exception is a wait_and_push or wait_and_pop that goes round again, and it
\* does so only when it has just seen the ring truly full, or truly empty.
WaitFree ==
  [][\A t \in Threads : pc[t] # "idle" /\ pc'[t] # pc[t] =>
       \/ StepsLeft(pc'[t]) < StepsLeft(pc[t])
       \/ /\ pc'[t] = "check" /\ op[t] \in {"wait_and_push", "wait_and_pop"}
          /\ IF t = "P" THEN Len(tail) - seenHead' = Capacity ELSE seenTail' = Len(head)]_vars

\* impl.hpp 152-155: the element at head cannot disappear between a peek and
\* the consumer's next call: a pop after a successful peek returns that very
\* value, and neither a pop nor a second peek finds the queue empty.
PeekHolds ==
  [][peeked # NoItem => /\ got' # got => got' = Append(got, peeked)
                        /\ peeked' \in {peeked, NoItem}
                        /\ ~(pc["C"] = "reload" /\ pc'["C"] = "idle")]_vars

\* defs.hpp 80, "snapshot only": an answer to the producer never counts fewer
\* items than there are, one to the consumer never more; both stay within the
\* capacity, and the consumer is told of every item it already knows of.
QueryIsConservative ==
  [][\A t \in Threads : answer'[t] # answer[t] /\ answer'[t] # NoAnswer =>
       LET items  == Len(tail) - Len(head)
           known  == seenTail - Len(head)
           n      == answer'[t]
       IN CASE t = "P" /\ op[t] = "size"  -> n \in items .. Capacity
            [] t = "P" /\ op[t] = "empty" -> n = 1 => items = 0
            [] t = "C" /\ op[t] = "size"  -> n \in known .. items
            [] t = "C" /\ op[t] = "empty" -> /\ n = 1 => known = 0
                                             /\ n = 0 => items > 0]_vars

\* The ring, with its indexes, caches and half-done operations, is a FIFO
\* queue of Capacity items: a push takes effect at its store to tail, a pop
\* when it reads the slot.
Fifo == INSTANCE FifoQueue WITH
          Items <- 1 .. MaxItems,
          Limit <- Capacity,
          q     <- [i \in 1 .. Len(tail) - 1 - Len(got) |-> arr[tail[Len(got) + i]]],
          taken <- got

RefinesFifo == Fifo!Spec

\* wait_and_push returns once there is room, even if no pop follows; it spins
\* on a copy of head, which it has to refresh.
WaitPushReturns ==
  pc["P"] # "idle" /\ op["P"] = "wait_and_push" /\ Len(tail) - Len(head) < Capacity
    ~> pc["P"] = "idle"

\* wait_and_pop returns once there is an item, even if no push follows.
WaitPopReturns ==
  pc["C"] # "idle" /\ op["C"] = "wait_and_pop" /\ Len(head) < Len(tail)
    ~> pc["C"] = "idle"
=============================================================================
