----------------------- MODULE BlockingMpmcUnbounded -----------------------
(***************************************************************************)
(* blocking_mpmc_unbounded<T>: a linked list with a mutex per end and one  *)
(* condition variable.  Producers fill the dummy that tail points to and   *)
(* link a new one behind it, under tail_mutex; consumers unlink the first  *)
(* node under head_mutex and look at tail through get_tail, which takes    *)
(* tail_mutex for the time of one read.                                    *)
(*                                                                         *)
(* One action is what a thread does between two points at which another    *)
(* thread can notice: taking or leaving a mutex, an access to a node, the  *)
(* two halves of cond.wait (evaluate the predicate; unlock and block).     *)
(* A waiter may also wake spuriously.  Nodes live at addresses that are    *)
(* reused; a node unlinked by a pop belongs to that pop until it returns.  *)
(* The item <<p, n>> is the n-th that producer p puts in the queue.        *)
(***************************************************************************)
EXTENDS Integers, Sequences, FiniteSets

CONSTANTS Producers,  \* the threads that push,
          Consumers,  \* that pop,
          Observers,  \* and that ask for size() or empty(); they may overlap
          Addr,       \* where nodes can be allocated; new throws when none is free
          None,       \* nullptr, and the owner of a free mutex
          MaxItems,   \* bound of the model: how many pushes may complete
          MayThrow    \* whether making or moving a T may throw

Threads == Producers \cup Consumers \cup Observers

ASSUME NoneAssumption == None \notin Addr \cup Threads
ASSUME ItemsAssumption == MaxItems \in Nat \ {0}
ASSUME ThreadsAssumption == IsFiniteSet(Threads)
ASSUME ThrowAssumption == MayThrow \in BOOLEAN

VARIABLES
  nodes,      \* the memory: data and next of each node, and (history) its
              \* serial, the number of the push that fills it
  live,       \* the addresses allocated
  head, tail, head_mutex, tail_mutex,  \* members of the class
  pc, op,     \* where a thread is, and in which operation
  value,      \* the item a thread holds outside the queue
  own,        \* the node a thread holds: new_dummy or old_head
  snap_tail, cur, count,  \* locals of size()
  answer,     \* the last answer of size() or empty() to a thread
  entered,    \* history: the items linked, in order
  taken,      \* history: the items unlinked, in order
  got,        \* history: the items returned to each consumer, in order
  dropped     \* history: the items lost to an exception of a pop

listVars  == <<nodes, live, head, tail>>
lockVars  == <<head_mutex, tail_mutex>>
queryVars == <<snap_tail, cur, count, answer>>
histVars  == <<entered, taken, got, dropped>>
vars == <<listVars, lockVars, pc, op, value, own, queryVars, histVars>>

NoItem   == <<None, 0>>   \* an empty shared_ptr
NoAnswer == -1

PopOps   == {"wait_and_pop", "try_pop"}
QueryOps == {"size", "empty"}

Goto(t, label) == pc' = [pc EXCEPT ![t] = label]

\* The threads blocked in cond.wait.
Waiters == {t \in Threads : pc[t] = "waiting"}

Pushing == {t \in Threads : pc[t] \in {"alloc", "lock_tail", "fill", "advance"}}

CountOf(p) == Cardinality({i \in 1 .. Len(entered) : entered[i][1] = p})
------------------------------------------------------------------------------
Init ==
  \E dummy \in Addr :
    /\ head = dummy /\ tail = dummy /\ live = {dummy}
    /\ nodes = [a \in Addr |-> [data |-> NoItem, next |-> None,
                                serial |-> IF a = dummy THEN 1 ELSE 0]]
    /\ head_mutex = None /\ tail_mutex = None
    /\ pc = [t \in Threads |-> "idle"]
    /\ op = [t \in Threads |-> "none"]
    /\ value = [t \in Threads |-> NoItem]
    /\ own = [t \in Threads |-> None]
    /\ snap_tail = [t \in Threads |-> None] /\ cur = [t \in Threads |-> None]
    /\ count = [t \in Threads |-> 0] /\ answer = [t \in Threads |-> NoAnswer]
    /\ entered = << >> /\ taken = << >>
    /\ got = [t \in Threads |-> << >>] /\ dropped = {}

Call(t, o, label) ==
  /\ pc[t] = "idle"
  /\ Goto(t, label)
  /\ op' = [op EXCEPT ![t] = o]

Return(t) ==
  /\ Goto(t, "idle")
  /\ op' = [op EXCEPT ![t] = "none"]

------------------------------------------------------------------------------
(* push; emplace is the same but for how the T is made. *)

PushCall(t) ==
  /\ Len(entered) + Cardinality(Pushing) < MaxItems
  /\ Call(t, "push", "alloc")
  /\ value' = [value EXCEPT ![t] = <<t, CountOf(t) + 1>>]
  /\ UNCHANGED <<listVars, lockVars, own, queryVars, histVars>>

\* make_shared and make_unique, before any lock is taken.
PushAlloc(t, a) ==
  /\ pc[t] = "alloc" /\ a \in Addr \ live
  /\ live' = live \cup {a}
  /\ nodes' = [nodes EXCEPT ![a] = [data |-> NoItem, next |-> None, serial |-> 0]]
  /\ own' = [own EXCEPT ![t] = a]
  /\ Goto(t, "lock_tail")
  /\ UNCHANGED <<head, tail, lockVars, op, value, queryVars, histVars>>

\* The T or an allocation throws; what was made is destroyed.
PushThrow(t) ==
  /\ pc[t] = "alloc" /\ (MayThrow \/ live = Addr)
  /\ value' = [value EXCEPT ![t] = NoItem]
  /\ Return(t)
  /\ UNCHANGED <<listVars, lockVars, own, queryVars, histVars>>

PushLock_Shared(t) ==
  /\ pc[t] = "lock_tail"
  /\ tail_mutex' = t
  /\ Goto(t, "fill")
  /\ UNCHANGED <<listVars, head_mutex, op, value, own, queryVars, histVars>>

PushLock(t) ==
  /\ pc[t] = "lock_tail" /\ tail_mutex = None
  /\ tail_mutex' = t
  /\ Goto(t, "fill")
  /\ UNCHANGED <<listVars, head_mutex, op, value, own, queryVars, histVars>>

\* A push that wants head_mutex too, in the wrong order.
PushFill_LocksHead(t) ==
  /\ pc[t] = "fill" /\ head_mutex = None
  /\ nodes' = [nodes EXCEPT ![tail].data = value[t], ![tail].next = own[t],
                            ![own[t]].serial = nodes[tail].serial + 1]
  /\ Goto(t, "advance")
  /\ UNCHANGED <<live, head, tail, lockVars, op, value, own, queryVars, histVars>>

PushFill(t) ==
  /\ pc[t] = "fill"
  /\ nodes' = [nodes EXCEPT ![tail].data = value[t], ![tail].next = own[t],
                            ![own[t]].serial = nodes[tail].serial + 1]
  /\ Goto(t, "advance")
  /\ UNCHANGED <<live, head, tail, lockVars, op, value, own, queryVars, histVars>>

\* Notifies only if the queue was empty.
PushAdvance_SparesNotify(t) ==
  /\ pc[t] = "advance"
  /\ tail' = nodes[tail].next
  /\ tail_mutex' = None
  /\ entered' = Append(entered, value[t])
  /\ value' = [value EXCEPT ![t] = NoItem]
  /\ own' = [own EXCEPT ![t] = None]
  /\ IF head = tail THEN Goto(t, "notify") /\ UNCHANGED op ELSE Return(t)
  /\ UNCHANGED <<nodes, live, head, head_mutex, queryVars, taken, got, dropped>>

\* tail moves on, and tail_mutex is released.
PushAdvance(t) ==
  /\ pc[t] = "advance"
  /\ tail' = nodes[tail].next
  /\ tail_mutex' = None
  /\ entered' = Append(entered, value[t])
  /\ value' = [value EXCEPT ![t] = NoItem]
  /\ own' = [own EXCEPT ![t] = None]
  /\ Goto(t, "notify")
  /\ UNCHANGED <<nodes, live, head, head_mutex, op, queryVars, taken, got, dropped>>

\* notify_one wakes some waiter; without any it does nothing, and is forgotten.
PushNotify(t) ==
  /\ pc[t] = "notify"
  /\ IF Waiters = {}
       THEN Goto(t, "idle")
       ELSE \E w \in Waiters :
              pc' = [pc EXCEPT ![t] = "idle", ![w] = "lock_head"]
  /\ op' = [op EXCEPT ![t] = "none"]
  /\ UNCHANGED <<listVars, lockVars, value, own, queryVars, histVars>>
------------------------------------------------------------------------------
(* wait_and_pop and try_pop: wait_and_get and try_get, then the data. *)

PopCall(t, o) ==
  /\ Call(t, o, "lock_head")
  /\ UNCHANGED <<listVars, lockVars, value, own, queryVars, histVars>>

\* The lock of a call; also the one a woken waiter has to take again.
LockHead(t) ==
  /\ pc[t] = "lock_head" /\ head_mutex = None
  /\ head_mutex' = t
  /\ Goto(t, "get_tail")
  /\ UNCHANGED <<listVars, tail_mutex, op, value, own, queryVars, histVars>>

\* get_tail waits for tail_mutex, and leaves it at once.
TailReadable == tail_mutex = None

\* Polls instead of blocking.
WaitCheck_Polls(t) ==
  /\ pc[t] = "get_tail" /\ op[t] = "wait_and_pop" /\ TailReadable
  /\ IF head # tail
       THEN Goto(t, "unlink") /\ UNCHANGED head_mutex
       ELSE Goto(t, "lock_head") /\ head_mutex' = None
  /\ UNCHANGED <<listVars, tail_mutex, op, value, own, queryVars, histVars>>

\* wait_and_pop evaluates the predicate: proceed, or go on to block.
WaitCheck(t) ==
  /\ pc[t] = "get_tail" /\ op[t] = "wait_and_pop" /\ TailReadable
  /\ Goto(t, IF head # tail THEN "unlink" ELSE "block")
  /\ UNCHANGED <<listVars, lockVars, op, value, own, queryVars, histVars>>

\* Blocks with head_mutex held.
WaitBlock_KeepsLock(t) ==
  /\ pc[t] = "block"
  /\ Goto(t, "waiting")
  /\ UNCHANGED <<listVars, lockVars, op, value, own, queryVars, histVars>>

\* The other half of cond.wait: unlock and block, atomically.
WaitBlock(t) ==
  /\ pc[t] = "block"
  /\ head_mutex' = None
  /\ Goto(t, "waiting")
  /\ UNCHANGED <<listVars, tail_mutex, op, value, own, queryVars, histVars>>

WakeSpuriously(t) ==
  /\ pc[t] = "waiting"
  /\ Goto(t, "lock_head")
  /\ UNCHANGED <<listVars, lockVars, op, value, own, queryVars, histVars>>

TryCheck(t) ==
  /\ pc[t] = "get_tail" /\ op[t] = "try_pop" /\ TailReadable
  /\ IF head # tail
       THEN Goto(t, "unlink") /\ UNCHANGED <<head_mutex, op>>
       ELSE Return(t) /\ head_mutex' = None
  /\ UNCHANGED <<listVars, tail_mutex, value, own, queryVars, histVars>>

\* Moves head and head->next, then leaves head_mutex.
PopUnlink(t) ==
  /\ pc[t] = "unlink"
  /\ own' = [own EXCEPT ![t] = head]
  /\ head' = nodes[head].next
  /\ nodes' = [nodes EXCEPT ![head].next = None]
  /\ head_mutex' = None
  /\ taken' = Append(taken, nodes[head].data)
  /\ Goto(t, "read")
  /\ UNCHANGED <<live, tail, tail_mutex, op, value, queryVars, entered, got, dropped>>

\* Reads the data of the next node, as the sentinel's comment suggests.
PopRead_FromHead(t) ==
  /\ pc[t] = "read"
  /\ got' = [got EXCEPT ![t] = Append(@, nodes[head].data)]
  /\ live' = live \ {own[t]}
  /\ own' = [own EXCEPT ![t] = None]
  /\ Return(t)
  /\ UNCHANGED <<nodes, head, tail, lockVars, value, queryVars, entered, taken, dropped>>

\* The value reaches the caller and old_head is destroyed.
PopRead(t) ==
  /\ pc[t] = "read"
  /\ got' = [got EXCEPT ![t] = Append(@, nodes[own[t]].data)]
  /\ live' = live \ {own[t]}
  /\ own' = [own EXCEPT ![t] = None]
  /\ Return(t)
  /\ UNCHANGED <<nodes, head, tail, lockVars, value, queryVars, entered, taken, dropped>>

\* old_head as a raw pointer, deleted on the normal path only.
PopThrow_Leaks(t) ==
  /\ pc[t] = "read" /\ MayThrow
  /\ dropped' = dropped \cup {nodes[own[t]].data}
  /\ own' = [own EXCEPT ![t] = None]
  /\ Return(t)
  /\ UNCHANGED <<listVars, lockVars, value, queryVars, entered, taken, got>>

\* The move into ref throws; old_head is destroyed all the same.
PopThrow(t) ==
  /\ pc[t] = "read" /\ MayThrow
  /\ dropped' = dropped \cup {nodes[own[t]].data}
  /\ live' = live \ {own[t]}
  /\ own' = [own EXCEPT ![t] = None]
  /\ Return(t)
  /\ UNCHANGED <<nodes, head, tail, lockVars, value, queryVars, entered, taken, got>>
------------------------------------------------------------------------------
(* size() and empty(). *)

QueryCall(t, o) ==
  /\ Call(t, o, "lock_head")
  /\ answer' = [answer EXCEPT ![t] = NoAnswer]
  /\ UNCHANGED <<listVars, lockVars, value, own, snap_tail, cur, count, histVars>>

EmptyCheck(t) ==
  /\ pc[t] = "get_tail" /\ op[t] = "empty" /\ TailReadable
  /\ answer' = [answer EXCEPT ![t] = IF head = tail THEN 1 ELSE 0]
  /\ head_mutex' = None
  /\ Return(t)
  /\ UNCHANGED <<listVars, tail_mutex, value, own, snap_tail, cur, count, histVars>>

\* Walks after giving head_mutex back.
SizeSnap_Unlocks(t) ==
  /\ pc[t] = "get_tail" /\ op[t] = "size" /\ TailReadable
  /\ snap_tail' = [snap_tail EXCEPT ![t] = tail]
  /\ cur' = [cur EXCEPT ![t] = head]
  /\ count' = [count EXCEPT ![t] = 0]
  /\ head_mutex' = None
  /\ Goto(t, "walk")
  /\ UNCHANGED <<listVars, tail_mutex, op, value, own, answer, histVars>>

\* The dummy counted like an item.
SizeSnap_CountsDummy(t) ==
  /\ pc[t] = "get_tail" /\ op[t] = "size" /\ TailReadable
  /\ snap_tail' = [snap_tail EXCEPT ![t] = tail]
  /\ cur' = [cur EXCEPT ![t] = head]
  /\ count' = [count EXCEPT ![t] = 1]
  /\ Goto(t, "walk")
  /\ UNCHANGED <<listVars, lockVars, op, value, own, answer, histVars>>

SizeSnap(t) ==
  /\ pc[t] = "get_tail" /\ op[t] = "size" /\ TailReadable
  /\ snap_tail' = [snap_tail EXCEPT ![t] = tail]
  /\ cur' = [cur EXCEPT ![t] = head]
  /\ count' = [count EXCEPT ![t] = 0]
  /\ Goto(t, "walk")
  /\ UNCHANGED <<listVars, lockVars, op, value, own, answer, histVars>>

SizeWalk_SkipsLast(t) ==
  /\ pc[t] = "walk" /\ cur[t] # snap_tail[t]
  /\ cur' = [cur EXCEPT ![t] = nodes[cur[t]].next]
  /\ count' = [count EXCEPT ![t] = IF cur'[t] = snap_tail[t] THEN @ ELSE @ + 1]
  /\ UNCHANGED <<listVars, lockVars, pc, op, value, own, snap_tail, answer, histVars>>

SizeWalk(t) ==
  /\ pc[t] = "walk" /\ cur[t] # snap_tail[t]
  /\ cur' = [cur EXCEPT ![t] = nodes[cur[t]].next]
  /\ count' = [count EXCEPT ![t] = @ + 1]
  /\ UNCHANGED <<listVars, lockVars, pc, op, value, own, snap_tail, answer, histVars>>

SizeReturn(t) ==
  /\ pc[t] = "walk" /\ cur[t] = snap_tail[t]
  /\ answer' = [answer EXCEPT ![t] = count[t]]
  /\ snap_tail' = [snap_tail EXCEPT ![t] = None]
  /\ cur' = [cur EXCEPT ![t] = None]
  /\ count' = [count EXCEPT ![t] = 0]
  /\ head_mutex' = None
  /\ Return(t)
  /\ UNCHANGED <<listVars, tail_mutex, value, own, histVars>>
------------------------------------------------------------------------------
(* The destructor, run by a thread when all calls have returned. *)

DtorCall ==
  /\ \A t \in Threads : pc[t] = "idle"
  /\ pc' = [t \in Threads |-> "destroy"]
  /\ UNCHANGED <<listVars, lockVars, op, value, own, queryVars, histVars>>

\* unique_ptr frees the chain, one node after the other.
DtorDelete ==
  /\ \E t \in Threads : pc[t] = "destroy"
  /\ head # None
  /\ live' = live \ {head}
  /\ head' = nodes[head].next
  /\ UNCHANGED <<nodes, tail, lockVars, pc, op, value, own, queryVars, histVars>>
------------------------------------------------------------------------------
PushStep(t) == \/ \E a \in Addr : PushAlloc(t, a)
               \/ PushThrow(t)
               \/ PushLock(t)
               \/ PushFill(t)
               \/ PushAdvance(t)
               \/ PushNotify(t)

PopStep(t) == \/ WaitCheck(t)
              \/ WaitBlock(t)
              \/ TryCheck(t)
              \/ PopUnlink(t)
              \/ PopRead(t)
              \/ PopThrow(t)

QueryStep(t) == EmptyCheck(t) \/ SizeSnap(t) \/ SizeWalk(t) \/ SizeReturn(t)

Step(t) == PushStep(t) \/ LockHead(t) \/ PopStep(t) \/ QueryStep(t)

NewCall == \/ \E t \in Producers : PushCall(t)
           \/ \E t \in Consumers, o \in PopOps : PopCall(t, o)
           \/ \E t \in Observers, o \in QueryOps : QueryCall(t, o)
           \/ DtorCall

Next == \/ NewCall
        \/ \E t \in Threads : Step(t) \/ WakeSpuriously(t)
        \/ DtorDelete

Spec == Init /\ [][Next]_vars

\* test_edge.cpp 61-62, "Give waiters time to block": no notification finds nobody
\* while a consumer has evaluated the predicate and has not blocked yet.
WaitersBlockFirst ==
  \A t \in Threads : pc[t] = "notify" /\ pc'[t] # "notify" /\ Waiters = {}
                        => \A c \in Threads : pc[c] # "block"

PatientSpec == Init /\ [][Next /\ WaitersBlockFirst]_vars
------------------------------------------------------------------------------
Labels == {"idle", "alloc", "lock_tail", "fill", "advance", "notify", "lock_head",
           "get_tail", "block", "waiting", "unlink", "read", "walk", "destroy"}

Item == (Producers \X (1 .. MaxItems)) \cup {NoItem}

MemoryTypes ==
  /\ nodes \in [Addr -> [data : Item, next : Addr \cup {None}, serial : 0 .. MaxItems + 1]]
  /\ live \subseteq Addr /\ head \in Addr \cup {None} /\ tail \in Addr
  /\ head_mutex \in Threads \cup {None} /\ tail_mutex \in Threads \cup {None}

ThreadTypes ==
  /\ pc \in [Threads -> Labels]
  /\ op \in [Threads -> PopOps \cup QueryOps \cup {"push", "none"}]
  /\ value \in [Threads -> Item]
  /\ own \in [Threads -> Addr \cup {None}]
  /\ snap_tail \in [Threads -> Addr \cup {None}] /\ cur \in [Threads -> Addr \cup {None}]
  /\ count \in [Threads -> 0 .. MaxItems]
  /\ answer \in [Threads -> 0 .. MaxItems \cup {NoAnswer}]

HistoryTypes ==
  /\ entered \in Seq(Item) /\ taken \in Seq(Item)
  /\ got \in [Threads -> Seq(Item)] /\ dropped \subseteq Item

TypeOK == MemoryTypes /\ ThreadTypes /\ HistoryTypes

\* impl.hpp 69-73: a node is used only by a thread that may: none that has been
\* deleted; no reader ever meets the node that tail points to, which a producer
\* may be filling; a node that a pop has unlinked belongs to that pop alone.
NodesAreSafe ==
  \A t \in Threads :
    /\ pc[t] \in {"fill", "advance"} => {tail, own[t]} \subseteq live
    /\ pc[t] = "unlink" => head \in live /\ head # tail
    /\ pc[t] = "walk" /\ cur[t] # snap_tail[t] => cur[t] \in live /\ cur[t] # tail
    /\ pc[t] = "read" => /\ own[t] \in live /\ own[t] # tail
                         /\ \A u \in Threads \ {t} : own[u] # own[t]

\* The dummies not yet linked, and the nodes unlinked but not yet destroyed.
Detached == {own[t] : t \in {u \in Threads : pc[u] \in {"lock_tail", "fill", "read"}}}

\* defs.hpp 20-24: from head, next leads through the nodes of the items that
\* are in the queue, in the order in which they entered, to the one dummy; tail
\* points to it, or a push that holds tail_mutex is about to see to that.
ListIsChain ==
  head # None /\ (\A t \in Threads : pc[t] # "destroy") =>
    LET Linked == live \ Detached
        first  == nodes[head].serial
        last   == nodes[tail].serial
    IN /\ head \in Linked /\ tail \in Linked
       /\ first = Len(taken) + 1 /\ last = Len(entered) + 1
       /\ {nodes[a].serial : a \in Linked} =
            first .. (IF \E t \in Threads : pc[t] = "advance" THEN last + 1 ELSE last)
       /\ \A a, b \in Linked :
            nodes[b].serial = nodes[a].serial + 1 <=> nodes[a].next = b

\* Besides the dummy there is one node per item when no call is running, also
\* after exceptions; the destructor frees all of them.
NodeAccounting ==
  /\ (\A t \in Threads : pc[t] = "idle") =>
       Cardinality(live) = Len(entered) - Len(taken) + 1
  /\ head = None => live = {}

\* The list at any time: no node is off it that should be on it, or left over.
ListIsIntact == ListIsChain /\ NodeAccounting

\* The places where an item that has left the queue is.
Holders(x) ==
  {h \in Threads \X (1 .. MaxItems) : h[2] \in DOMAIN got[h[1]] /\ got[h[1]][h[2]] = x}
    \cup {<<t, 0>> : t \in {u \in Threads : pc[u] = "read" /\ nodes[own[u]].data = x}}
    \cup (IF x \in dropped THEN {<<None, 0>>} ELSE {})

\* test_concurrent.cpp 4-21: the consumers see disjoint sets of items, which
\* together are what left the queue; an item is lost only if a pop threw it away.
EachItemOnce ==
  \A i \in 1 .. Len(entered) :
    Cardinality(Holders(entered[i])) = IF i <= Len(taken) THEN 1 ELSE 0

\* Although the value is read after head_mutex has been released, a consumer
\* receives the items of any one producer in the order in which it pushed them.
ProducerOrder ==
  \A c \in Threads : \A j \in 1 .. Len(got[c]) : \A i \in 1 .. j - 1 :
    got[c][i][1] = got[c][j][1] => got[c][i][2] < got[c][j][2]

\* impl.hpp 166-169: size() is the number of items at the moment of get_tail,
\* whatever is pushed during the walk; empty() is exact.
QueryIsSnapshot ==
  [][\A t \in Threads : answer'[t] # answer[t] /\ answer'[t] # NoAnswer =>
       IF op[t] = "size"
         THEN /\ answer'[t] = nodes[snap_tail[t]].serial - nodes[head].serial
              /\ answer'[t] \in 0 .. Len(entered) - Len(taken)
         ELSE answer'[t] = 1 <=> Len(entered) = Len(taken)]_vars

\* The node that the n-th push fills, and the queue's contents as a sequence.
ItemAt(n) == nodes[CHOOSE a \in Addr : nodes[a].serial = n].data

Fifo == INSTANCE FifoQueue WITH
          Items <- Producers \X (1 .. MaxItems),
          Limit <- MaxItems,
          q     <- [i \in 1 .. Len(entered) - Len(taken) |-> ItemAt(Len(taken) + i)],
          taken <- taken

\* The list with its two locks is one FIFO queue: a push takes effect when tail
\* moves, a pop when head moves; nothing else changes what is in the queue.
RefinesFifo == Fifo!Spec

\* What stops a thread inside a call: a mutex that is held, and cond.wait.
Blocked(t) ==
  \/ pc[t] = "lock_head" /\ head_mutex # None
  \/ pc[t] \in {"lock_tail", "get_tail"} /\ tail_mutex # None
  \/ pc[t] = "waiting"

CanGoOn(t) == pc[t] \notin {"idle", "destroy"} /\ ~Blocked(t)

\* defs.hpp 36-38 and test_edge.cpp 14: the locks are always taken in one order,
\* and nobody sleeps with one: as long as a call is running, other than one that
\* waits for an item, some thread can go on.
NoDeadlock ==
  (\E t \in Threads : pc[t] \notin {"idle", "waiting", "destroy"})
    => \E t \in Threads : CanGoOn(t)

\* The same lines: nothing but a held mutex and cond.wait ever stops a thread, in
\* no state of the list, of memory or of the other threads.
OnlyLocksBlock == \A t \in Threads : CanGoOn(t) <=> ENABLED Step(t)

\* How far a call is from its end.
Stage(t) ==
  CASE pc[t] = "alloc"     -> 10
    [] pc[t] = "lock_tail" -> 9
    [] pc[t] = "fill"      -> 8
    [] pc[t] = "advance"   -> 7
    [] pc[t] = "notify"    -> 6
    [] pc[t] = "lock_head" -> 5
    [] pc[t] = "get_tail"  -> 4
    [] pc[t] \in {"block", "unlink", "walk"} -> 3
    [] pc[t] = "read"      -> 2
    [] pc[t] = "waiting"   -> 1
    [] OTHER               -> 0

\* The nodes that a walk has still to count.
Ahead(t) == nodes[snap_tail[t]].serial - nodes[cur[t]].serial

\* test_edge.cpp 14 and test_helpers.hpp 44-46: calls do not keep each other busy
\* either.  A step brings a walk nearer to its end, or its thread to a lower stage;
\* then a sleeper that it wakes is also at a lower stage than the thread was.  So
\* without new calls and spurious wakeups all steps run out, under any scheduler.
CallsRunOut ==
  [][\A t \in Threads : Step(t) =>
       \/ pc' = pc /\ pc[t] = "walk" /\ Ahead(t)' \in 0 .. Ahead(t) - 1
       \/ /\ pc'[t] # pc[t]
          /\ \A u \in Threads : pc'[u] # pc[u] => Stage(u)' < Stage(t)]_vars

\* test_edge.cpp 12-13 and 44-46: "no lost wakeups".  If nothing is going on and
\* a consumer sleeps in wait_and_pop, then there is nothing for it to pop.
NoLostWakeup ==
  (\A t \in Threads : pc[t] \in {"idle", "waiting"}) /\ Waiters # {} => head = tail
=============================================================================
