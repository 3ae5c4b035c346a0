----------------------- MODULE LockfreeSpscUnbounded -----------------------
(***************************************************************************)
(* lockfree_spsc_unbounded<T>: a linked list whose last node is an empty   *)
(* stub; the producer "P" fills the stub and links a new one behind it,    *)
(* the consumer "C" reads the first node and deletes it.                   *)
(*                                                                         *)
(* One action is one access to memory the other thread can see.  Nodes     *)
(* live at addresses that delete gives back and new may hand out again.    *)
(* next is atomic: the producer links each node once, with a release       *)
(* store, so a load either still finds null or finds the link, and finds   *)
(* it for sure once a link stored no earlier is known to the thread.       *)
(* The item of the n-th completed push is n.                               *)
(***************************************************************************)
EXTENDS Integers, Sequences, FiniteSets

CONSTANTS Addr,       \* where nodes can be allocated; new throws when none is free
          Null,       \* nullptr
          MaxItems,   \* bound of the model: how many pushes may complete
          MayThrow,   \* whether moving or constructing a T may throw
          QueryThreads  \* the threads that call size() and empty()

ASSUME NullAssumption == Null \notin Addr
ASSUME ItemsAssumption == MaxItems \in Nat \ {0}
ASSUME ThreadsAssumption == QueryThreads \subseteq {"P", "C"} /\ MayThrow \in BOOLEAN

VARIABLES
  nodes,      \* the memory: data and next of each node, and (history) which
              \* push fills it: its serial, 0 until it is linked
  live,       \* the addresses allocated
  head, tail, \* members of the class
  pc, op,     \* where a thread is, and in which operation
  value, new_stub,      \* locals of push
  next_node, old_head,  \* locals of try_pop
  cur, count, \* locals of size(), per thread
  answer,     \* the last answer of size() or empty() to a thread
  pushed,     \* history: the links stored so far
  seen,       \* history: the newest link that happens before C's next step
  got,        \* history: the values popped, in order
  peeked,     \* history: the value of a peek that no pop has followed yet
  leaked      \* history: nodes whose address nobody holds any more

prodVars  == <<tail, value, new_stub, leaked>>
consVars  == <<head, next_node, old_head, got, peeked>>
queryVars == <<cur, count, answer>>
vars == <<nodes, live, prodVars, consVars, queryVars, pushed, seen, pc, op>>

Threads  == {"P", "C"}
PushOps  == {"push", "emplace"}
PopOps   == {"try_pop", "wait_and_pop", "peek"}
QueryOps == {"size", "empty"}

NoItem   == 0    \* a default-constructed or moved-from T
NoT      == -1   \* the T of a node that construct_at has not finished
NoAnswer == -1

Goto(t, label) == pc' = [pc EXCEPT ![t] = label]

Call(t, o, label) ==
  /\ pc[t] = "idle"
  /\ Goto(t, label)
  /\ op' = [op EXCEPT ![t] = o]
------------------------------------------------------------------------------
\* What thread t may get from an acquire load of the next of the node at a.
NextOf(t, a) ==
  IF t = "P" \/ nodes[a].serial <= seen THEN {nodes[a].next}
                                        ELSE {Null, nodes[a].next}

\* The newest link known after loading x from the node at a.
AfterLoad_Relaxed(t, a, x) == seen

AfterLoad(t, a, x) ==
  IF t = "C" /\ x # Null /\ nodes[a].serial > seen THEN nodes[a].serial ELSE seen

Init ==
  \E stub \in Addr :
    /\ head = stub /\ tail = stub /\ live = {stub}
    /\ nodes = [a \in Addr |-> [data   |-> NoItem, next |-> Null,
                                serial |-> IF a = stub THEN 1 ELSE 0]]
    /\ pc = [t \in Threads |-> "idle"]
    /\ op = [t \in Threads |-> "none"]
    /\ value = NoItem /\ new_stub = Null
    /\ next_node = Null /\ old_head = Null
    /\ cur = [t \in Threads |-> Null]
    /\ count = [t \in Threads |-> 0]
    /\ answer = [t \in Threads |-> NoAnswer]
    /\ pushed = 0 /\ seen = 0 /\ got = << >> /\ peeked = NoItem /\ leaked = {}
------------------------------------------------------------------------------
(* The producer: push, emplace. *)

PushCall(o) ==
  /\ pushed < MaxItems
  /\ Call("P", o, "alloc")
  /\ value' = pushed + 1
  /\ UNCHANGED <<nodes, live, tail, new_stub, leaked, consVars, queryVars, pushed, seen>>

\* new node() with a null next.
PushAlloc(a) ==
  /\ pc["P"] = "alloc" /\ a \in Addr \ live
  /\ live' = live \cup {a}
  /\ nodes' = [nodes EXCEPT ![a] = [data |-> NoItem, next |-> Null, serial |-> 0]]
  /\ new_stub' = a
  /\ Goto("P", "data")
  /\ UNCHANGED <<tail, value, leaked, consVars, queryVars, pushed, seen, op>>

\* No new node: std::bad_alloc, or the default constructor of its T throws.
PushNoNode ==
  /\ pc["P"] = "alloc" /\ (live = Addr \/ MayThrow)
  /\ value' = NoItem
  /\ Goto("P", "idle")
  /\ UNCHANGED <<nodes, live, tail, new_stub, leaked, consVars, queryVars, pushed, seen, op>>

\* The data goes into the current stub, which nobody else reads yet.
PushData_IntoNewStub ==
  /\ pc["P"] = "data"
  /\ nodes' = [nodes EXCEPT ![new_stub].data = value]
  /\ value' = NoItem
  /\ Goto("P", "publish")
  /\ UNCHANGED <<live, tail, new_stub, leaked, consVars, queryVars, pushed, seen, op>>

PushData ==
  /\ pc["P"] = "data"
  /\ nodes' = [nodes EXCEPT ![tail].data = value]
  /\ value' = NoItem
  /\ Goto("P", "publish")
  /\ UNCHANGED <<live, tail, new_stub, leaked, consVars, queryVars, pushed, seen, op>>

\* The T throws: the exception leaves push, and nothing owns new_stub.  What push
\* assigns to stays a T; emplace has begun to construct another over it, so the
\* stub now holds none.
PushThrow ==
  /\ pc["P"] = "data" /\ MayThrow
  /\ nodes' = [nodes EXCEPT ![tail].data = IF op["P"] = "emplace" THEN NoT ELSE @]
  /\ leaked' = leaked \cup {new_stub}
  /\ value' = NoItem
  /\ Goto("P", "idle")
  /\ UNCHANGED <<live, tail, new_stub, consVars, queryVars, pushed, seen, op>>

PushPublish ==
  /\ pc["P"] = "publish"
  /\ nodes' = [nodes EXCEPT ![tail].next = new_stub, ![new_stub].serial = pushed + 2]
  /\ pushed' = pushed + 1
  /\ Goto("P", "advance")
  /\ UNCHANGED <<live, prodVars, consVars, queryVars, seen, op>>

PushAdvance_Forgotten ==
  /\ pc["P"] = "advance"
  /\ Goto("P", "idle")
  /\ UNCHANGED <<nodes, live, prodVars, consVars, queryVars, pushed, seen, op>>

\* The old stub may be gone by now: tail is overwritten, not followed.
PushAdvance ==
  /\ pc["P"] = "advance"
  /\ tail' = new_stub
  /\ Goto("P", "idle")
  /\ UNCHANGED <<nodes, live, value, new_stub, leaked, consVars, queryVars, pushed, seen, op>>
------------------------------------------------------------------------------
(* The consumer: try_pop, wait_and_pop, peek. *)

PopCall(o) ==
  /\ Call("C", o, "load")
  /\ UNCHANGED <<nodes, live, prodVars, consVars, queryVars, pushed, seen>>

PopLoad_NeverRetries(x) ==
  /\ pc["C"] = "load" /\ x = Null
  /\ next_node' = x
  /\ Goto("C", IF op["C"] = "wait_and_pop" THEN "load" ELSE "idle")
  /\ UNCHANGED <<nodes, live, head, old_head, got, peeked, prodVars, queryVars, pushed, seen, op>>

\* Without the test for null: the stub is popped like an item.
PopLoad_Unchecked(x) ==
  /\ pc["C"] = "load" /\ x \in NextOf("C", head)
  /\ next_node' = x
  /\ seen' = AfterLoad("C", head, x)
  /\ Goto("C", "read")
  /\ UNCHANGED <<nodes, live, head, old_head, got, peeked, prodVars, queryVars, pushed, op>>

PopLoad(x) ==
  /\ pc["C"] = "load" /\ x \in NextOf("C", head)
  /\ next_node' = x
  /\ seen' = AfterLoad("C", head, x)
  /\ Goto("C", IF x # Null THEN "read"
               ELSE IF op["C"] = "wait_and_pop" THEN "load" ELSE "idle")
  /\ UNCHANGED <<nodes, live, head, old_head, got, peeked, prodVars, queryVars, pushed, op>>

PeekRead_Moves ==
  /\ pc["C"] = "read" /\ op["C"] = "peek"
  /\ peeked' = nodes[head].data
  /\ nodes' = [nodes EXCEPT ![head].data = NoItem]
  /\ Goto("C", "idle")
  /\ UNCHANGED <<live, head, next_node, old_head, got, prodVars, queryVars, pushed, seen, op>>

PeekRead ==
  /\ pc["C"] = "read" /\ op["C"] = "peek"
  /\ peeked' = nodes[head].data
  /\ Goto("C", "idle")
  /\ UNCHANGED <<nodes, live, head, next_node, old_head, got, prodVars, queryVars, pushed, seen, op>>

PopRead ==
  /\ pc["C"] = "read" /\ op["C"] # "peek"
  /\ got' = Append(got, nodes[head].data)
  /\ nodes' = [nodes EXCEPT ![head].data = NoItem]
  /\ Goto("C", "advance")
  /\ UNCHANGED <<live, head, next_node, old_head, peeked, prodVars, queryVars, pushed, seen, op>>

\* The T throws out of the pop or the peek: its node stays the first one.
PopThrow ==
  /\ pc["C"] = "read" /\ MayThrow
  /\ Goto("C", "idle")
  /\ UNCHANGED <<nodes, live, consVars, prodVars, queryVars, pushed, seen, op>>

\* old_head is read after head has moved.
PopAdvance_Swapped ==
  /\ pc["C"] = "advance"
  /\ old_head' = next_node
  /\ head' = next_node
  /\ peeked' = NoItem
  /\ Goto("C", "delete")
  /\ UNCHANGED <<nodes, live, next_node, got, prodVars, queryVars, pushed, seen, op>>

PopAdvance ==
  /\ pc["C"] = "advance"
  /\ old_head' = head
  /\ head' = next_node
  /\ peeked' = NoItem
  /\ Goto("C", "delete")
  /\ UNCHANGED <<nodes, live, next_node, got, prodVars, queryVars, pushed, seen, op>>

PopDelete_Forgotten ==
  /\ pc["C"] = "delete"
  /\ Goto("C", "idle")
  /\ UNCHANGED <<nodes, live, consVars, prodVars, queryVars, pushed, seen, op>>

PopDelete ==
  /\ pc["C"] = "delete"
  /\ live' = live \ {old_head}
  /\ Goto("C", "idle")
  /\ UNCHANGED <<nodes, consVars, prodVars, queryVars, pushed, seen, op>>
------------------------------------------------------------------------------
(* size() and empty(). *)

QueryCall(t, o) ==
  /\ Call(t, o, "first")
  /\ answer' = [answer EXCEPT ![t] = NoAnswer]
  /\ count' = [count EXCEPT ![t] = 0]
  /\ UNCHANGED <<nodes, live, prodVars, consVars, cur, pushed, seen>>

\* head->next: all there is to empty(), the start of size()'s walk.
QueryFirst(t, x) ==
  /\ pc[t] = "first" /\ x \in NextOf(t, head)
  /\ seen' = AfterLoad(t, head, x)
  /\ IF op[t] = "empty"
       THEN /\ answer' = [answer EXCEPT ![t] = IF x = Null THEN 1 ELSE 0]
            /\ Goto(t, "idle")
            /\ UNCHANGED cur
       ELSE /\ cur' = [cur EXCEPT ![t] = x]
            /\ Goto(t, "walk")
            /\ UNCHANGED answer
  /\ UNCHANGED <<nodes, live, prodVars, consVars, count, pushed, op>>

\* Counts the stub as well: the last node linked is not an item.
QueryWalk_CountsFromHead(t, x) ==
  /\ pc[t] = "walk" /\ cur[t] # Null /\ x \in NextOf(t, cur[t])
  /\ cur' = [cur EXCEPT ![t] = x]
  /\ count' = [count EXCEPT ![t] = IF @ = 0 THEN 2 ELSE @ + 1]
  /\ seen' = AfterLoad(t, cur[t], x)
  /\ UNCHANGED <<nodes, live, prodVars, consVars, answer, pushed, pc, op>>

\* cur = head->next in the loop.
QueryWalk_FromHead(t, x) ==
  /\ pc[t] = "walk" /\ cur[t] # Null /\ x \in NextOf(t, head)
  /\ cur' = [cur EXCEPT ![t] = x]
  /\ count' = [count EXCEPT ![t] = @ + 1]
  /\ seen' = AfterLoad(t, head, x)
  /\ UNCHANGED <<nodes, live, prodVars, consVars, answer, pushed, pc, op>>

QueryWalk(t, x) ==
  /\ pc[t] = "walk" /\ cur[t] # Null /\ x \in NextOf(t, cur[t])
  /\ cur' = [cur EXCEPT ![t] = x]
  /\ count' = [count EXCEPT ![t] = @ + 1]
  /\ seen' = AfterLoad(t, cur[t], x)
  /\ UNCHANGED <<nodes, live, prodVars, consVars, answer, pushed, pc, op>>

QueryReturn(t) ==
  /\ pc[t] = "walk" /\ cur[t] = Null
  /\ answer' = [answer EXCEPT ![t] = count[t]]
  /\ Goto(t, "idle")
  /\ UNCHANGED <<nodes, live, prodVars, consVars, cur, count, pushed, seen, op>>
------------------------------------------------------------------------------
(* The destructor: no other thread uses the queue any more. *)

DtorCall ==
  /\ pc = [t \in Threads |-> "idle"]
  /\ pc' = [P |-> "joined", C |-> "destroy"]
  /\ UNCHANGED <<nodes, live, prodVars, consVars, queryVars, pushed, seen, op>>

DtorDelete ==
  /\ pc["C"] = "destroy" /\ head # Null
  /\ live' = live \ {head}
  /\ head' = nodes[head].next
  /\ UNCHANGED <<nodes, prodVars, next_node, old_head, got, peeked, queryVars,
                 pushed, seen, pc, op>>

DtorReturn ==
  /\ pc["C"] = "destroy" /\ head = Null
  /\ Goto("C", "destroyed")
  /\ UNCHANGED <<nodes, live, prodVars, consVars, queryVars, pushed, seen, op>>
------------------------------------------------------------------------------
PushStep == \/ \E a \in Addr : PushAlloc(a)
            \/ PushNoNode
            \/ PushData
            \/ PushThrow
            \/ PushPublish
            \/ PushAdvance

PopStep == \/ \E x \in Addr \cup {Null} : PopLoad(x)
           \/ PeekRead
           \/ PopRead
           \/ PopThrow
           \/ PopAdvance
           \/ PopDelete

QueryStep(t) == \/ \E x \in Addr \cup {Null} : QueryFirst(t, x)
                \/ \E x \in Addr \cup {Null} : QueryWalk(t, x)
                \/ QueryReturn(t)

DtorStep == DtorDelete \/ DtorReturn

NewCall == \/ \E o \in PushOps : PushCall(o)
           \/ \E o \in PopOps : PopCall(o)
           \/ \E t \in QueryThreads, o \in QueryOps : QueryCall(t, o)
           \/ DtorCall

Next == \/ NewCall
        \/ PushStep
        \/ PopStep
        \/ \E t \in QueryThreads : QueryStep(t)
        \/ DtorStep

Spec == Init /\ [][Next]_vars
------------------------------------------------------------------------------
TypeOK ==
  /\ nodes \in [Addr -> [data : {NoT} \cup 0 .. MaxItems, next : Addr \cup {Null},
                         serial : 0 .. MaxItems + 1]]
  /\ live \subseteq Addr
  /\ head \in Addr \/ (head = Null /\ pc["C"] \in {"destroy", "destroyed"})
  /\ tail \in Addr
  /\ pc["P"] \in {"idle", "alloc", "data", "publish", "advance", "first", "walk", "joined"}
  /\ pc["C"] \in {"idle", "load", "read", "advance", "delete", "first", "walk",
                  "destroy", "destroyed"}
  /\ op \in [Threads -> PushOps \cup PopOps \cup QueryOps \cup {"none"}]
  /\ value \in 0 .. MaxItems
  /\ {new_stub, next_node, old_head} \subseteq Addr \cup {Null}
  /\ cur \in [Threads -> Addr \cup {Null}]
  /\ count \in [Threads -> 0 .. MaxItems]
  /\ answer \in [Threads -> 0 .. MaxItems \cup {NoAnswer}]
  /\ pushed \in 0 .. MaxItems /\ seen \in 0 .. pushed
  /\ got \in Seq(0 .. MaxItems) /\ peeked \in 0 .. MaxItems
  /\ leaked \subseteq Addr

\* No thread follows a pointer to a node that has been deleted, although the
\* allocator may hand the same address out again (impl.hpp 105-107: the
\* consumer deletes a node the producer may still call tail).
NodesAreLive ==
  /\ pc["P"] \in {"data", "publish"} => {tail, new_stub} \subseteq live
  /\ pc["C"] \in {"load", "read"} => head \in live
  /\ pc["C"] = "delete" => old_head \in live
  /\ pc["C"] = "destroy" /\ head # Null => head \in live
  /\ \A t \in Threads :
       /\ pc[t] = "first" => head \in live
       /\ pc[t] = "walk" /\ cur[t] # Null => cur[t] \in live

\* The nodes that some pointer outside the list is responsible for.
Detached == leaked \cup (IF pc["P"] \in {"data", "publish"} THEN {new_stub} ELSE {})
                   \cup (IF pc["C"] = "delete" THEN {old_head} ELSE {})

\* impl.hpp 38-42 and test_sequential.cpp 10-14: from head, next leads through
\* the nodes of the items not yet popped, in the order of the pushes, to the one
\* stub that tail points to, whose next alone is null.
ListIsChain ==
  pc["P"] # "joined" =>
    LET Linked == live \ Detached
        first  == nodes[head].serial
    IN /\ head \in Linked
       /\ first = IF pc["C"] = "advance" THEN Len(got) ELSE Len(got) + 1
       /\ {nodes[a].serial : a \in Linked} = first .. pushed + 1
       /\ \A a \in Linked :
            IF nodes[a].serial = pushed + 1
              THEN nodes[a].next = Null
              ELSE nodes[a].next \in Linked
                   /\ nodes[nodes[a].next].serial = nodes[a].serial + 1
       /\ nodes[tail].serial = pushed + 1
            \/ (pc["P"] = "advance" /\ nodes[new_stub].serial = pushed + 1)

\* test_sequential.cpp 15-16: every push allocates exactly one node and every
\* pop frees exactly one, so besides the stub there is one node per item; the
\* destructor frees the rest.
NodeAccounting ==
  /\ pc = [t \in Threads |-> "idle"] =>
       Cardinality(live \ leaked) = pushed - Len(got) + 1
  /\ pc["C"] = "destroyed" => live = leaked

\* The list at any time: no node is off it that should be on it, or left over.
ListIsIntact == ListIsChain /\ NodeAccounting

\* The same without the exception for nodes that a throwing T has orphaned.
NothingLeaks ==
  pc = [t \in Threads |-> "idle"] => Cardinality(live) = pushed - Len(got) + 1

\* impl.hpp 45-48: the data of a node is read only when the link that publishes
\* it happens before the read, and every pop returns the next push's item.
FifoDelivery ==
  /\ pc["C"] = "read" => nodes[head].serial <= seen
  /\ \A n \in 1 .. Len(got) : got[n] = n

\* try_pop and peek answer "empty" only after every item known to the consumer
\* has been popped; after a successful peek neither does, and a pop returns the
\* peeked value (impl.hpp 130-132).
EmptyAndPeekAreTrue ==
  [][/\ pc["C"] = "load" /\ pc'["C"] = "idle" => seen' = Len(got) /\ peeked = NoItem
     /\ peeked # NoItem => /\ got' # got => got' = Append(got, peeked)
                           /\ peeked' \in {peeked, NoItem}]_vars

\* impl.hpp 156-161: asked by the consumer, size() never counts an item that is
\* not there, and none that it knows of is missing; empty() accordingly.
QueryIsSnapshot ==
  [][answer'["C"] # answer["C"] /\ answer'["C"] # NoAnswer =>
       IF op["C"] = "size"
         THEN answer'["C"] \in seen - Len(got) .. pushed - Len(got)
         ELSE /\ answer'["C"] = 1 => seen = Len(got)
              /\ answer'["C"] = 0 => pushed > Len(got)]_vars

\* How many more nodes the consumer's walk can meet, as the list is now.
Ahead == IF cur["C"] = Null THEN 0 ELSE pushed + 2 - nodes[cur["C"]].serial

\* defs.hpp 15, "lock-free", impl.hpp 156-161: size() follows a list that grows under
\* it.  Each of its steps brings it nearer to the end, and nothing but a push takes
\* it further away, by one node; so it returns when the producer pauses for long
\* enough.  A wait_and_pop goes round again only beside a queue it knows to be empty.
LockFree ==
  [][/\ \A x \in Addr \cup {Null} : QueryWalk("C", x) => Ahead' \in 0 .. Ahead - 1
     /\ PushStep /\ pc["C"] = "walk" => Ahead' - Ahead \in 0 .. pushed' - pushed
     /\ \A x \in Addr \cup {Null} : PopLoad(x) /\ pc'["C"] = "load" => seen' = Len(got)]_vars

\* The node that the n-th push fills, and the queue's contents as a sequence.
ItemAt(n) == nodes[CHOOSE a \in Addr : nodes[a].serial = n].data

Fifo == INSTANCE FifoQueue WITH
          Items <- 1 .. MaxItems,
          Limit <- MaxItems,
          q     <- [i \in 1 .. pushed - Len(got) |-> ItemAt(Len(got) + i)],
          taken <- got

\* The list is a FIFO queue: a push takes effect when the stub is linked, a
\* pop when the data is read; exceptions, queries and the destructor change
\* nothing.
RefinesFifo == Fifo!Spec

\* wait_and_pop returns once an item is there, even if no further push follows.
WaitPopReturns ==
  pc["C"] \notin {"idle", "destroy", "destroyed"} /\ op["C"] = "wait_and_pop" /\ pushed > Len(got)
    ~> pc["C"] = "idle"
=============================================================================
